---- MODULE Spec2Model ----
(***************************************************************************)
(* The signal overlay engine of src/components/signal-overlay              *)
(* (signal-overlay-engine.ts): a tick buffer fed by an upstream tick       *)
(* subscription, a 5 s detection poll that analyses the last-digit         *)
(* distribution of the buffered quotes, and a 1 s countdown that ages and  *)
(* finally clears the one active signal.                                   *)
(*                                                                         *)
(* Time is the value of Date.now() in milliseconds.  Interval timers fire  *)
(* at their due time or up to MaxLate later, and are re-armed at a fixed   *)
(* rate.  Quotes are held in units of 1/QuoteScale, percentages and the    *)
(* confidence score as exact fractions [num, den] (den = 0 is NaN).        *)
(* An optional value (T | null) is the empty sequence or <<value>>.        *)
(*                                                                         *)
(* Specifications:                                                         *)
(*   Spec         the engine, connected at the first attempt               *)
(*   SpecLive     Spec with its timers, ticks and clock kept going         *)
(*   SpecThrow    Spec with a subscriber callback that may throw           *)
(*   SpecAnalyze  analyzeDistribution and the poll on given buffers        *)
(*   SpecCycle    Spec with initialize() on a destroyed engine             *)
(*   SpecStart    initialize()/destroy() at any time, failing connections  *)
(*   SpecMount    the SignalOverlay component driving the engine           *)
(*   SpecTicks    the tick callback on arbitrary messages                  *)
(*   SpecGen      the listeners of the signal generator services           *)
(*   SpecRun      start() and stop() of the signal generator services      *)
(*   SpecAuth     ApiTokenAuthService                                      *)
(*   SpecSecret   the secret access system (utils/secret-access.ts)        *)
(*   SpecPremium  hasPremiumAccess (utils/premium-access-check.ts)         *)
(***************************************************************************)
EXTENDS Integers, Sequences, FiniteSets, TLC

\* ------------------------------------------------------------- constants
SIGNAL_DURATION == 120
MIN_TICKS_FOR_ANALYSIS == 50
CONFIDENCE_THRESHOLD == 65
TICK_BUFFER_SIZE == 100
SIGNAL_CHECK_INTERVAL == 5000
RETRY_DELAY == 5000
\* utils/secret-access.ts
SEQUENCE_TIMEOUT == 3000
SEQUENCE_COMPLETE_TIMEOUT == 5000
LOGO_CLICK_TIMEOUT == 2000
LOGO_CLICKS == 3
RELOAD_DELAY == 1000
COUNTDOWN_INTERVAL == 1000
MsPerSecond == 1000
DominancePct == 60
ConfidenceBonus == 5
ConfidenceCap == 95
NeutralConfidence == 50
HighDigitFrom == 5

\* ---------------------------------------------------------------- bounds
\* The clock runs from 0 to MaxTime in steps of TimeStep.
MaxTime == 150000
TimeStep == 500
\* A due timer callback runs at most MaxLate after its due time.
MaxLate == 500
\* The upstream source emits one tick every TickPeriod, on time.
TickPeriod == 500
\* initialize() is called only while the clock is at most MaxStartTime.
MaxStartTime == 0
\* The upstream stream: of every StreamPeriod ticks the first HighRun have a
\* last digit in 5..9, the others one in 0..4.
StreamPeriod == 100
HighRun == 31
\* Lengths of the buffers the analyzer is applied to on its own.
MaxProbeLen == 60
\* The listener functions that subscribe to a generator service.
MaxListeners == 3
\* The messages delivered to the tick callback on its own.
MaxRawTicks == 3
\* A destroyed engine is initialized again after RestartStep steps of the clock.
RestartStep == 120
\* Starting and stopping: the clock runs to StartHorizon, at most MaxPending
\* initialize() calls await the connection at once, MaxStartCalls are made
\* and MaxFailures connection attempts fail.
StartHorizon == 11000
\* the markets the realtime service subscribes to
MaxMarkets == 2
\* start() and stop() calls on a signal generator service
MaxRunCalls == 3
\* generateSignals() calls of the fast service in flight
MaxGenerating == 1
\* listeners of a service that is started and stopped
MaxRunListeners == 1
\* authenticate() calls on the ApiTokenAuthService, and how many are in flight
MaxAuthCalls == 3
MaxAuthInFlight == 2
\* SpecLive: reload() comes when a signal has this many seconds left
ReloadRemaining == 60
\* the secret access system is followed up to this time
SecHorizon == 6000
\* keys pressed out of the order of the secret code
MaxWrongKeys == 1
\* completions of the secret code
MaxCompletions == 1
MaxPending == 2
MaxStartCalls == 2
MaxFailures == 2

\* Quotes carry four decimals: they are held in units of 1/QuoteScale.
QuoteScale == 100 * 100

Null == << >>
Some(x) == << x >>
Max(a, b) == IF a >= b THEN a ELSE b
Min(a, b) == IF a <= b THEN a ELSE b
Abs(x) == IF x < 0 THEN 0 - x ELSE x

\* ------------------------------------------------------------- fractions
Frac(n, d) == [num |-> n, den |-> d]
Whole(n) == Frac(n, 1)
IsNaN(a) == a.den = 0
\* a > b, a < b, a = b on doubles holding these fractions; false on NaN
FracGt(a, b) == ~IsNaN(a) /\ ~IsNaN(b) /\ a.num * b.den > b.num * a.den
FracLt(a, b) == FracGt(b, a)
FracEq(a, b) == ~IsNaN(a) /\ ~IsNaN(b) /\ a.num * b.den = b.num * a.den
FracAdd(a, n) == IF IsNaN(a) THEN a ELSE Frac(a.num + n * a.den, a.den)
\* Math.min(n, a)
FracMin(n, a) == IF IsNaN(a) THEN a ELSE IF FracLt(a, Whole(n)) THEN a ELSE Whole(n)
\* Math.round: to the nearest integer, halves up
Round(a) == (2 * a.num + a.den) \div (2 * a.den)
\* (count / total) * 100
Percentage(count, total) == Frac(count * 100, total)

\* ------------------------------------------------------- upstream stream
\* a quote (234.dddd) whose second decimal is in 5..9 (high) or in 0..4
MakeQuote(high, i) == 2340000 + (IF high THEN 500 ELSE 0) + 100 * (i % 5) + (i % 7)
IsHighTick(i) == ((i - 1) % StreamPeriod) < HighRun
TickAt(i) == [quote |-> MakeQuote(IsHighTick(i), i), epoch |-> i]

VARIABLES
    now,                      \* Date.now()
    isInitialized,
    hasOnSignalUpdate,        \* onSignalUpdate is set
    currentSignal,            \* SignalData | null
    tickBuffer,               \* TickData[]
    unsubscribe,              \* the stored unsubscribe closure: its subscription id | null
    countdownInterval,        \* timer handle | null
    signalGenerationInterval, \* timer handle | null
    activeSignalIds,
    timers,                   \* the live interval timers of the event loop
    subs,                     \* the live tick subscriptions held at derivAPIService
    pendingInit,              \* initialize() calls awaiting connectToDerivAPI
    pendingRetry,             \* connectToDerivAPI calls of the retry callback, awaiting
    startCalls,               \* how many initialize() calls got past the isInitialized test
    failures,                 \* how many connection attempts failed
    thrown,                   \* initialize() rejected with the connection error in the last step
    orphanRetries,            \* the retry timeouts that were pending when destroy() was last called
    nextTick,                 \* index of the next tick of the upstream stream
    tickDue,                  \* when the upstream source emits it
    notified,                 \* the arguments of the onSignalUpdate calls of the last step
    analysis,                 \* the snapshot analyzeDistribution returned in the last step | null
    ingested,                 \* the ticks handleTickData received since the buffer was last reset
    subscriberSaw,            \* the signal onSignalUpdate was last called about, and whether null followed
    rawDelivered,             \* the raw message the tick callback got in the last step | null
    lastOp,                   \* the operation that made the last step
    \* a signal generator service (services/*-over-signal-generator.service.ts)
    service,                  \* which of the two services this is
    listeners,                \* Set of listener functions, in insertion order
    currentSignals,           \* the fast service's currentSignals
    generating,               \* the fast service's generateSignals() is awaiting its scanners
    closures,                 \* the listeners an unsubscribe closure was returned for
    released,                 \* the listeners unsubscribed since they last subscribed
    called,                   \* the listener calls of the last step, in order
    genOp,                    \* the service operation that made the last step
    \* the SignalOverlay component (SignalOverlay.tsx)
    mounted,                  \* the component is mounted
    engineInitialized,        \* engineInitialized.current
    isEngineRunning,
    \* the secret access system (utils/secret-access.ts)
    secNow,                   \* Date.now() of the page
    sequence,                 \* the last keys pressed
    timer,                    \* the pending sequence-reset timeout: its due time | null
    isSequenceComplete,
    flagTimers,               \* due times of the pending isSequenceComplete resets
    logoClickCount,
    logoClickTimer,           \* the pending click-count reset: its due time | null
    reloadTimers,             \* due times of the pending page reloads
    fakeRealMode,             \* localStorage demo_icon_us_flag is 'true'
    wrongKeys,                \* how many keys outside the code's order were pressed
    clickLog,                 \* the times of the clicks logoClickCount counts
    lastKey,                  \* the key of the last step's keydown | null
    completions,              \* how many times the key sequence was completed
    secOp,                    \* the operation of the secret access system in the last step
    \* premium access (utils/premium-access-check.ts)
    active_loginid,           \* localStorage item active_loginid: a string | null
    accountsList,             \* localStorage item accountsList: "absent", "invalid" or "valid"
    whitelist,                \* the content of the premium whitelist
    fetchOutcome,             \* what fetch('/premium-whitelist.json') does
    premResult,               \* what the last hasPremiumAccess() call returned | null
    premOp,                   \* the operation of premium access in the last step
    \* starting and stopping a signal generator service
    isRunning,
    genInterval,              \* the service's signalGenerationInterval: an interval id | null
    liveIntervals,            \* the ids of the intervals the event loop holds
    subscriptions,            \* the realtime service's Map market -> subscription id, in order
    liveSubs,                 \* the ids of the tick subscriptions the API holds
    calls,                    \* the start(), stop() and generateSignals() calls in flight
    runCalls,                 \* how many start() and stop() calls were made
    \* ApiTokenAuthService
    authToken,                \* a token | null
    isAuthenticated,
    storedToken,              \* localStorage item deriv_api_token: a token | null
    authCalls,                \* the tokens of the authenticate() calls in flight
    authCount,                \* how many authenticate() calls were made
    authResult,               \* what the authenticate() call that ended in the last step returned | null
    succeeded,                \* an authenticate() call succeeded and no logout() or page load followed
    authOp                    \* the operation of the service in the last step

engineVars == << now, isInitialized, hasOnSignalUpdate, currentSignal, tickBuffer, unsubscribe,
                 countdownInterval, signalGenerationInterval, activeSignalIds, timers, subs,
                 pendingInit, pendingRetry, startCalls, failures, thrown, orphanRetries, nextTick,
                 tickDue,
                 notified, analysis, ingested, subscriberSaw, rawDelivered, lastOp >>

genVars == << service, listeners, currentSignals, generating, closures, released, called, genOp >>

uiVars == << mounted, engineInitialized, isEngineRunning >>

secVars == << secNow, sequence, timer, isSequenceComplete, flagTimers, logoClickCount,
             logoClickTimer, reloadTimers, fakeRealMode, wrongKeys, clickLog, lastKey, completions,
             secOp >>

premVars == << active_loginid, accountsList, whitelist, fetchOutcome, premResult, premOp >>

runVars == << isRunning, genInterval, liveIntervals, subscriptions, liveSubs, calls, runCalls >>

authVars == << authToken, isAuthenticated, storedToken, authCalls, authCount, authResult,
              succeeded, authOp >>

\* the components outside the signal overlay
extVars == << secVars, premVars, runVars, authVars >>

vars == << engineVars, genVars, uiVars, extVars >>

\* The state as one record, so that a method is a function from state to state.
St ==
    [ now |-> now, isInitialized |-> isInitialized, hasOnSignalUpdate |-> hasOnSignalUpdate,
      currentSignal |-> currentSignal, tickBuffer |-> tickBuffer, unsubscribe |-> unsubscribe,
      countdownInterval |-> countdownInterval,
      signalGenerationInterval |-> signalGenerationInterval,
      activeSignalIds |-> activeSignalIds, timers |-> timers, subs |-> subs,
      pendingInit |-> pendingInit, pendingRetry |-> pendingRetry, startCalls |-> startCalls,
      failures |-> failures, thrown |-> FALSE, orphanRetries |-> orphanRetries,
      nextTick |-> nextTick,
      tickDue |-> tickDue, notified |-> << >>, analysis |-> Null, ingested |-> ingested,
      subscriberSaw |-> subscriberSaw, rawDelivered |-> Null ]

BecomesEngine(s, op) ==
    /\ now' = s.now
    /\ isInitialized' = s.isInitialized
    /\ hasOnSignalUpdate' = s.hasOnSignalUpdate
    /\ currentSignal' = s.currentSignal
    /\ tickBuffer' = s.tickBuffer
    /\ unsubscribe' = s.unsubscribe
    /\ countdownInterval' = s.countdownInterval
    /\ signalGenerationInterval' = s.signalGenerationInterval
    /\ activeSignalIds' = s.activeSignalIds
    /\ timers' = s.timers
    /\ subs' = s.subs
    /\ pendingInit' = s.pendingInit
    /\ pendingRetry' = s.pendingRetry
    /\ startCalls' = s.startCalls
    /\ failures' = s.failures
    /\ thrown' = s.thrown
    /\ orphanRetries' = s.orphanRetries
    /\ nextTick' = s.nextTick
    /\ tickDue' = s.tickDue
    /\ notified' = s.notified
    /\ analysis' = s.analysis
    /\ ingested' = s.ingested
    /\ subscriberSaw' = s.subscriberSaw
    /\ rawDelivered' = s.rawDelivered
    /\ lastOp' = op

\* a step of the engine alone
Becomes(s, op) ==
    /\ BecomesEngine(s, op)
    /\ UNCHANGED genVars
    /\ UNCHANGED uiVars
    /\ UNCHANGED extVars

\* ------------------------------------------------------------ the event loop
Handle(kind, start) == [kind |-> kind, start |-> start]
HandleOf(t) == Handle(t.kind, t.start)
\* setInterval(callback, period) at time t
SetInterval(ts, kind, t, period) ==
    ts \cup { [kind |-> kind, start |-> t, due |-> t + period, period |-> period] }
\* clearInterval(handle)
ClearInterval(ts, h) == { t \in ts : HandleOf(t) # h }
\* setTimeout(callback, delay) at time t
SetTimeout(ts, kind, t, delay) ==
    ts \cup { [kind |-> kind, start |-> t, due |-> t + delay, period |-> 0] }
\* an interval timer that ran its callback and is still live is due one period later
Rearm(ts, t) ==
    IF t \in ts THEN (ts \ {t}) \cup { [t EXCEPT !.due = t.due + t.period] } ELSE ts

\* what the subscriber has seen once onSignalUpdate(x) returned
Saw(saw, x) ==
    IF x # Null THEN Some([id |-> x[1].id, createdAt |-> x[1].createdAt, cleared |-> FALSE])
    ELSE IF saw # Null THEN Some([saw[1] EXCEPT !.cleared = TRUE])
    ELSE saw

\* if (this.onSignalUpdate) this.onSignalUpdate(x)
NotifyUI(s, x) ==
    IF s.hasOnSignalUpdate
    THEN [s EXCEPT !.notified = Append(s.notified, x), !.subscriberSaw = Saw(s.subscriberSaw, x)]
    ELSE s

\* ------------------------------------------------------------ the engine
\* mutant of handleTickData: evicts as soon as the buffer is full
handleTickData_evictWhenFull(s, tick) ==
    LET pushed == Append(s.tickBuffer, tick)
    IN  [s EXCEPT !.tickBuffer = IF Len(pushed) >= TICK_BUFFER_SIZE THEN Tail(pushed) ELSE pushed,
                  !.ingested = Append(s.ingested, tick)]

\* handleTickData
handleTickData(s, tick) ==
    LET pushed == Append(s.tickBuffer, tick)
    IN  [s EXCEPT !.tickBuffer = IF Len(pushed) > TICK_BUFFER_SIZE THEN Tail(pushed) ELSE pushed,
                  !.ingested = Append(s.ingested, tick)]

\* ---- JavaScript values of a tick message: a number, NaN, Infinity, a string
\* (num is its length) or undefined
Num(n) == [kind |-> "number", num |-> n]
NaN == [kind |-> "NaN", num |-> 0]
Infinity == [kind |-> "Infinity", num |-> 0]
Str(len) == [kind |-> "string", num |-> len]
Undefined == [kind |-> "undefined", num |-> 0]
\* ToBoolean
Truthy(v) ==
    CASE v.kind = "number" -> v.num # 0
      [] v.kind = "string" -> v.num > 0
      [] v.kind = "Infinity" -> TRUE
      [] OTHER -> FALSE
\* the value as the buffer holds it: a number is itself
Stored(v) == IF v.kind = "number" THEN v.num ELSE v
\* the message { tick: { quote, epoch } } the upstream source sends for a tick
RawTick(tick) == Some([tick |-> Some([quote |-> Num(tick.quote), epoch |-> Num(tick.epoch)])])

\* the callback connectToDerivAPI gives to subscribeToTicks
tickCallback(s, tickData) ==
    IF tickData # Null /\ tickData[1].tick # Null
    THEN LET tick == tickData[1].tick[1]
         IN  IF Truthy(tick.quote) /\ Truthy(tick.epoch)
             THEN handleTickData(s, [quote |-> Stored(tick.quote), epoch |-> Stored(tick.epoch)])
             ELSE s
    ELSE s

\* Math.abs(Math.floor(price * 100)) % 10
LastDigit(quote) == Abs((quote * 100) \div QuoteScale) % 10

\* mutant of RecentTicks: the whole buffer is analysed
RecentTicks_whole(buf) == buf

\* tickBuffer.slice(-MIN_TICKS_FOR_ANALYSIS)
RecentTicks(buf) == SubSeq(buf, Max(1, Len(buf) - MIN_TICKS_FOR_ANALYSIS + 1), Len(buf))

\* the last digits of the analysed ticks
LastDigits(buf) ==
    LET recentTicks == RecentTicks(buf)
    IN  [i \in 1..Len(recentTicks) |-> LastDigit(recentTicks[i].quote)]

\* mutant of BiasOf: follows the dominant side instead of predicting its reversal
BiasOf_trend(overPercentage, underPercentage) ==
    IF FracGt(overPercentage, Whole(DominancePct)) THEN "OVER"
    ELSE IF FracGt(underPercentage, Whole(DominancePct)) THEN "UNDER"
    ELSE "NEUTRAL"

\* mutant of BiasOf: a share of exactly 60% already counts as dominant
BiasOf_atLeast(overPercentage, underPercentage) ==
    IF ~FracLt(overPercentage, Whole(DominancePct)) /\ ~IsNaN(overPercentage) THEN "UNDER"
    ELSE IF ~FracLt(underPercentage, Whole(DominancePct)) /\ ~IsNaN(underPercentage) THEN "OVER"
    ELSE "NEUTRAL"

\* the bias analyzeDistribution settles on
BiasOf(overPercentage, underPercentage) ==
    IF FracGt(overPercentage, Whole(DominancePct)) THEN "UNDER"
    ELSE IF FracGt(underPercentage, Whole(DominancePct)) THEN "OVER"
    ELSE "NEUTRAL"

\* mutant of ConfidenceOf: the cap is left out
ConfidenceOf_noCap(overPercentage, underPercentage) ==
    IF FracGt(overPercentage, Whole(DominancePct))
    THEN FracAdd(overPercentage, ConfidenceBonus)
    ELSE IF FracGt(underPercentage, Whole(DominancePct))
         THEN FracAdd(underPercentage, ConfidenceBonus)
         ELSE Whole(NeutralConfidence)

\* the confidence score analyzeDistribution settles on
ConfidenceOf(overPercentage, underPercentage) ==
    IF FracGt(overPercentage, Whole(DominancePct))
    THEN FracMin(ConfidenceCap, FracAdd(overPercentage, ConfidenceBonus))
    ELSE IF FracGt(underPercentage, Whole(DominancePct))
         THEN FracMin(ConfidenceCap, FracAdd(underPercentage, ConfidenceBonus))
         ELSE Whole(NeutralConfidence)

\* analyzeDistribution
analyzeDistribution(buf) ==
    LET lastDigits == LastDigits(buf)
        overCount == Cardinality({i \in 1..Len(lastDigits) : lastDigits[i] >= HighDigitFrom})
        underCount == Cardinality({i \in 1..Len(lastDigits) : ~(lastDigits[i] >= HighDigitFrom)})
        total == Len(lastDigits)
        overPercentage == Percentage(overCount, total)
        underPercentage == Percentage(underCount, total)
    IN  [ recentTicks |-> lastDigits,
          overCount |-> overCount,
          underCount |-> underCount,
          overPercentage |-> overPercentage,
          underPercentage |-> underPercentage,
          bias |-> BiasOf(overPercentage, underPercentage),
          confidenceScore |-> ConfidenceOf(overPercentage, underPercentage) ]

\* mutant of SignalId: the id does not depend on the time
SignalId_constant(t) == << "signal", 0 >>

\* `signal-${Date.now()}`
SignalId(t) == << "signal", t >>

\* startCountdown: the part that arms the timer
startCountdown(s) ==
    LET cleared == IF s.countdownInterval # Null
                   THEN ClearInterval(s.timers, s.countdownInterval[1]) ELSE s.timers
    IN  [s EXCEPT !.timers = SetInterval(cleared, "countdown", s.now, COUNTDOWN_INTERVAL),
                  !.countdownInterval = Some(Handle("countdown", s.now))]

\* mutant of clearCurrentSignal: the id stays in activeSignalIds
clearCurrentSignal_keepsId(s) ==
    IF s.currentSignal # Null
    THEN LET s1 == [s EXCEPT !.currentSignal = Null]
             s2 == IF s1.countdownInterval # Null
                   THEN [s1 EXCEPT !.timers = ClearInterval(@, s1.countdownInterval[1]),
                                   !.countdownInterval = Null]
                   ELSE s1
         IN  NotifyUI(s2, Null)
    ELSE s

\* mutant of clearCurrentSignal: the subscriber is not told
clearCurrentSignal_silent(s) ==
    IF s.currentSignal # Null
    THEN LET s1 == [s EXCEPT !.activeSignalIds = @ \ {s.currentSignal[1].id},
                             !.currentSignal = Null]
         IN  IF s1.countdownInterval # Null
             THEN [s1 EXCEPT !.timers = ClearInterval(@, s1.countdownInterval[1]),
                             !.countdownInterval = Null]
             ELSE s1
    ELSE s

\* clearCurrentSignal
clearCurrentSignal(s) ==
    IF s.currentSignal # Null
    THEN LET s1 == [s EXCEPT !.activeSignalIds = @ \ {s.currentSignal[1].id},
                             !.currentSignal = Null]
             s2 == IF s1.countdownInterval # Null
                   THEN [s1 EXCEPT !.timers = ClearInterval(@, s1.countdownInterval[1]),
                                   !.countdownInterval = Null]
                   ELSE s1
         IN  NotifyUI(s2, Null)
    ELSE s

\* mutant of NewSignal: the controller inverts the analyzer's bias
NewSignal_inverting(a, t) ==
    [ id |-> SignalId(t),
      type |-> IF a.bias = "OVER" THEN "UNDER" ELSE "OVER",
      market |-> "R_50",
      confidence |-> Round(a.confidenceScore),
      createdAt |-> t,
      expiresAt |-> t + SIGNAL_DURATION * MsPerSecond,
      remainingSeconds |-> SIGNAL_DURATION,
      distributionAnalysis |-> a ]

\* mutant of NewSignal: the duration is added in seconds to a time in milliseconds
NewSignal_secondsAsMs(a, t) ==
    [ id |-> SignalId(t),
      type |-> a.bias,
      market |-> "R_50",
      confidence |-> Round(a.confidenceScore),
      createdAt |-> t,
      expiresAt |-> t + SIGNAL_DURATION,
      remainingSeconds |-> SIGNAL_DURATION,
      distributionAnalysis |-> a ]

\* the signal generateSignal builds
NewSignal(a, t) ==
    [ id |-> SignalId(t),
      type |-> a.bias,
      market |-> "R_50",
      confidence |-> Round(a.confidenceScore),
      createdAt |-> t,
      expiresAt |-> t + SIGNAL_DURATION * MsPerSecond,
      remainingSeconds |-> SIGNAL_DURATION,
      distributionAnalysis |-> a ]

\* generateSignal
generateSignal(s, a) ==
    IF SignalId(s.now) \in s.activeSignalIds
    THEN s
    ELSE LET signal == NewSignal(a, s.now)
             s1 == [s EXCEPT !.currentSignal = Some(signal),
                             !.activeSignalIds = @ \cup {signal.id}]
         IN  startCountdown(NotifyUI(s1, Some(signal)))

\* mutant of checkAndGenerateSignal: an active signal does not stop the poll
checkAndGenerateSignal_noActiveGuard(s) ==
    IF Len(s.tickBuffer) < MIN_TICKS_FOR_ANALYSIS THEN s
    ELSE LET a == analyzeDistribution(s.tickBuffer)
             s1 == [s EXCEPT !.analysis = Some(a)]
         IN  IF FracLt(a.confidenceScore, Whole(CONFIDENCE_THRESHOLD)) THEN s1
             ELSE IF a.bias # "NEUTRAL" THEN generateSignal(s1, a)
             ELSE s1

\* mutant of checkAndGenerateSignal: the minimum tick count is not checked
checkAndGenerateSignal_noMinTicks(s) ==
    IF s.currentSignal # Null THEN s
    ELSE LET a == analyzeDistribution(s.tickBuffer)
             s1 == [s EXCEPT !.analysis = Some(a)]
         IN  IF FracLt(a.confidenceScore, Whole(CONFIDENCE_THRESHOLD)) THEN s1
             ELSE IF a.bias # "NEUTRAL" THEN generateSignal(s1, a)
             ELSE s1

\* mutant of checkAndGenerateSignal: a poll on an active signal restarts its countdown
checkAndGenerateSignal_restartsCountdown(s) ==
    IF s.currentSignal # Null THEN startCountdown(s)
    ELSE IF Len(s.tickBuffer) < MIN_TICKS_FOR_ANALYSIS THEN s
    ELSE LET a == analyzeDistribution(s.tickBuffer)
             s1 == [s EXCEPT !.analysis = Some(a)]
         IN  IF FracLt(a.confidenceScore, Whole(CONFIDENCE_THRESHOLD)) THEN s1
             ELSE IF a.bias # "NEUTRAL" THEN generateSignal(s1, a)
             ELSE s1

\* checkAndGenerateSignal
checkAndGenerateSignal(s) ==
    IF s.currentSignal # Null THEN s
    ELSE IF Len(s.tickBuffer) < MIN_TICKS_FOR_ANALYSIS THEN s
    ELSE LET a == analyzeDistribution(s.tickBuffer)
             s1 == [s EXCEPT !.analysis = Some(a)]
         IN  IF FracLt(a.confidenceScore, Whole(CONFIDENCE_THRESHOLD)) THEN s1
             ELSE IF a.bias # "NEUTRAL" THEN generateSignal(s1, a)
             ELSE s1

\* generateSignal when the subscriber's callback throws: the statements before the call
\* (lines 323-324) have run, the call was made, startCountdown() (line 338) is not reached
generateSignalThrown(s, a) ==
    IF SignalId(s.now) \in s.activeSignalIds
    THEN s
    ELSE LET signal == NewSignal(a, s.now)
             s1 == [s EXCEPT !.currentSignal = Some(signal),
                             !.activeSignalIds = @ \cup {signal.id}]
         IN  IF s1.hasOnSignalUpdate
             THEN [s1 EXCEPT !.notified = Append(@, Some(signal)), !.thrown = TRUE]
             ELSE startCountdown(s1)

\* checkAndGenerateSignal when the subscriber's callback throws: nothing catches the
\* error on its way out of generateSignal, checkAndGenerateSignal and the interval callback
checkAndGenerateSignalThrown(s) ==
    IF s.currentSignal # Null THEN s
    ELSE IF Len(s.tickBuffer) < MIN_TICKS_FOR_ANALYSIS THEN s
    ELSE LET a == analyzeDistribution(s.tickBuffer)
             s1 == [s EXCEPT !.analysis = Some(a)]
         IN  IF FracLt(a.confidenceScore, Whole(CONFIDENCE_THRESHOLD)) THEN s1
             ELSE IF a.bias # "NEUTRAL" THEN generateSignalThrown(s1, a)
             ELSE s1

\* Math.max(0, Math.floor(remainingMs / 1000))
RemainingSeconds(expiresAt, t) == Max(0, (expiresAt - t) \div MsPerSecond)

\* mutant of countdownCallback: an expired signal is kept until the time is negative
countdownCallback_keepsExpired(s) ==
    IF s.currentSignal = Null
    THEN IF s.countdownInterval # Null
         THEN [s EXCEPT !.timers = ClearInterval(@, s.countdownInterval[1])]
         ELSE s
    ELSE LET remainingSeconds == RemainingSeconds(s.currentSignal[1].expiresAt, s.now)
             updated == [s.currentSignal[1] EXCEPT !.remainingSeconds = remainingSeconds]
             s1 == NotifyUI([s EXCEPT !.currentSignal = Some(updated)], Some(updated))
         IN  IF remainingSeconds < 0 THEN clearCurrentSignal(s1) ELSE s1

\* mutant of countdownCallback: an expired signal is cleared before its last update is sent
countdownCallback_clearFirst(s) ==
    IF s.currentSignal = Null
    THEN IF s.countdownInterval # Null
         THEN [s EXCEPT !.timers = ClearInterval(@, s.countdownInterval[1])]
         ELSE s
    ELSE LET remainingSeconds == RemainingSeconds(s.currentSignal[1].expiresAt, s.now)
             updated == [s.currentSignal[1] EXCEPT !.remainingSeconds = remainingSeconds]
         IN  IF remainingSeconds <= 0
             THEN NotifyUI(clearCurrentSignal(s), Some(updated))
             ELSE NotifyUI([s EXCEPT !.currentSignal = Some(updated)], Some(updated))

\* the callback startCountdown gives to setInterval
countdownCallback(s) ==
    IF s.currentSignal = Null
    THEN IF s.countdownInterval # Null
         THEN [s EXCEPT !.timers = ClearInterval(@, s.countdownInterval[1])]
         ELSE s
    ELSE LET remainingSeconds == RemainingSeconds(s.currentSignal[1].expiresAt, s.now)
             updated == [s.currentSignal[1] EXCEPT !.remainingSeconds = remainingSeconds]
             s1 == NotifyUI([s EXCEPT !.currentSignal = Some(updated)], Some(updated))
         IN  IF remainingSeconds <= 0 THEN clearCurrentSignal(s1) ELSE s1

\* startSignalGeneration
startSignalGeneration(s) ==
    LET cleared == IF s.signalGenerationInterval # Null
                   THEN ClearInterval(s.timers, s.signalGenerationInterval[1]) ELSE s.timers
    IN  [s EXCEPT !.timers = SetInterval(cleared, "poll", s.now, SIGNAL_CHECK_INTERVAL),
                  !.signalGenerationInterval = Some(Handle("poll", s.now))]

\* mutant of destroy: the detection poll's interval is left running
destroy_keepsPoll(s) ==
    LET s1 == IF s.unsubscribe # Null
              THEN [s EXCEPT !.subs = @ \ {s.unsubscribe[1]}, !.unsubscribe = Null]
              ELSE s
        s2 == IF s1.countdownInterval # Null
              THEN [s1 EXCEPT !.timers = ClearInterval(@, s1.countdownInterval[1]),
                              !.countdownInterval = Null]
              ELSE s1
    IN  [s2 EXCEPT !.currentSignal = Null,
                   !.tickBuffer = << >>,
                   !.ingested = << >>,
                   !.orphanRetries = { HandleOf(t) : t \in { r \in s.timers : r.kind = "retry" } },
                   !.activeSignalIds = {},
                   !.isInitialized = FALSE]

\* destroy
destroy(s) ==
    LET s1 == IF s.unsubscribe # Null
              THEN [s EXCEPT !.subs = @ \ {s.unsubscribe[1]}, !.unsubscribe = Null]
              ELSE s
        s2 == IF s1.countdownInterval # Null
              THEN [s1 EXCEPT !.timers = ClearInterval(@, s1.countdownInterval[1]),
                              !.countdownInterval = Null]
              ELSE s1
        s3 == IF s2.signalGenerationInterval # Null
              THEN [s2 EXCEPT !.timers = ClearInterval(@, s2.signalGenerationInterval[1]),
                              !.signalGenerationInterval = Null]
              ELSE s2
    IN  [s3 EXCEPT !.currentSignal = Null,
                   !.tickBuffer = << >>,
                   !.ingested = << >>,
                   !.orphanRetries = { HandleOf(t) : t \in { r \in s.timers : r.kind = "retry" } },
                   !.activeSignalIds = {},
                   !.isInitialized = FALSE]

\* the id derivAPIService.subscribeToTicks returns: one no live subscription has
FreshSub(live) == CHOOSE n \in 1..(Cardinality(live) + 1) : n \notin live

\* connectToDerivAPI, from the subscription being granted to its return
connectSucceeded(s) ==
    LET subscriptionId == FreshSub(s.subs)
    IN  [s EXCEPT !.subs = @ \cup {subscriptionId},
                  !.unsubscribe = Some(subscriptionId)]

\* connectToDerivAPI, its catch block: the retry is scheduled, the error rethrown
connectFailed(s) ==
    [s EXCEPT !.timers = SetTimeout(@, "retry", s.now, RETRY_DELAY), !.failures = @ + 1]

\* mutant of retryCallback: the retry does not look at isInitialized
retryCallback_always(s) == [s EXCEPT !.pendingRetry = @ + 1]

\* the callback the catch block gives to setTimeout
retryCallback(s) == IF s.isInitialized THEN [s EXCEPT !.pendingRetry = @ + 1] ELSE s

\* ------------------------------------------------------------ the actions
\* the secret access system after construction, fake real mode being off
SecIdle ==
    /\ secNow = 0
    /\ sequence = << >>
    /\ timer = Null
    /\ isSequenceComplete = FALSE
    /\ flagTimers = {}
    /\ logoClickCount = 0
    /\ logoClickTimer = Null
    /\ reloadTimers = {}
    /\ fakeRealMode = FALSE
    /\ wrongKeys = 0
    /\ clickLog = << >>
    /\ lastKey = Null
    /\ completions = 0
    /\ secOp = "init"

\* nobody is logged in, no whitelist is deployed, premium access was never asked for
PremIdle ==
    /\ active_loginid = Null
    /\ accountsList = "absent"
    /\ whitelist = [kind |-> "absent", items |-> << >>]
    /\ fetchOutcome = "rejects"
    /\ premResult = Null
    /\ premOp = "init"

\* a signal generator service after construction
RunIdle ==
    /\ isRunning = FALSE
    /\ genInterval = Null
    /\ liveIntervals = {}
    /\ subscriptions = << >>
    /\ liveSubs = {}
    /\ calls = << >>
    /\ runCalls = 0

\* mutant of loadStoredToken: a stored token counts as authenticated
loadStoredToken_authenticates(stored) ==
    [authToken |-> stored, isAuthenticated |-> stored # Null]

\* the constructor: the fields' initial values, then loadStoredToken()
loadStoredToken(stored) ==
    [authToken |-> stored, isAuthenticated |-> FALSE]

\* ApiTokenAuthService constructed over the localStorage item stored
AuthConstructed(stored) ==
    /\ storedToken = stored
    /\ authToken = loadStoredToken(stored).authToken
    /\ isAuthenticated = loadStoredToken(stored).isAuthenticated
    /\ authCalls = << >>
    /\ authCount = 0
    /\ authResult = Null
    /\ succeeded = FALSE
    /\ authOp = "construct"

\* the components outside the signal overlay, after construction
ExtIdle ==
    /\ SecIdle
    /\ PremIdle
    /\ RunIdle
    /\ AuthConstructed(Null)

\* no SignalOverlay component is mounted
NoComponent ==
    /\ mounted = FALSE
    /\ engineInitialized = FALSE
    /\ isEngineRunning = FALSE
    /\ ExtIdle

\* a generator service after construction
GenIdle ==
    /\ service = "realtime"
    /\ listeners = << >>
    /\ currentSignals = << >>
    /\ generating = FALSE
    /\ closures = {}
    /\ released = {}
    /\ called = << >>
    /\ genOp = "init"

\* the engine after construction
EngineInit ==
    /\ now = 0
    /\ isInitialized = FALSE
    /\ hasOnSignalUpdate = FALSE
    /\ currentSignal = Null
    /\ tickBuffer = << >>
    /\ unsubscribe = Null
    /\ countdownInterval = Null
    /\ signalGenerationInterval = Null
    /\ activeSignalIds = {}
    /\ timers = {}
    /\ subs = {}
    /\ pendingInit = 0
    /\ pendingRetry = 0
    /\ startCalls = 0
    /\ failures = 0
    /\ thrown = FALSE
    /\ orphanRetries = {}
    /\ nextTick = 1
    /\ tickDue = TickPeriod
    /\ notified = << >>
    /\ analysis = Null
    /\ ingested = << >>
    /\ subscriberSaw = Null
    /\ rawDelivered = Null
    /\ lastOp = "init"

Init ==
    /\ EngineInit
    /\ GenIdle
    /\ NoComponent

\* initialize(), up to its await of connectToDerivAPI; it is not called again
\* while a call awaits the connection
InitializeCall ==
    /\ now <= MaxStartTime
    /\ pendingInit = 0
    /\ IF isInitialized
       THEN Becomes(St, "initialize")
       ELSE Becomes([St EXCEPT !.hasOnSignalUpdate = TRUE, !.pendingInit = @ + 1], "initialize")

\* the connection is made: connectToDerivAPI returns and initialize() runs to its end
ConnectOk ==
    /\ pendingInit > 0
    /\ LET s1 == startSignalGeneration(connectSucceeded(St))
       IN  Becomes([s1 EXCEPT !.isInitialized = TRUE, !.pendingInit = @ - 1,
                              !.tickDue = Max(@, now + TickPeriod)], "connect")

\* the upstream source emits its next tick: every subscription's callback runs
DeliverTick ==
    /\ subs # {}
    /\ now >= tickDue
    /\ LET tickData == RawTick(TickAt(nextTick))
           RECURSIVE deliver(_, _)
           deliver(s, k) == IF k = 0 THEN s ELSE deliver(tickCallback(s, tickData), k - 1)
       IN  Becomes([deliver(St, Cardinality(subs)) EXCEPT !.nextTick = @ + 1,
                                                          !.tickDue = @ + TickPeriod], "tick")

\* the detection poll's timer fires
PollFire ==
    \E t \in timers :
        /\ t.kind = "poll"
        /\ now >= t.due
        /\ LET s1 == checkAndGenerateSignal(St)
           IN  Becomes([s1 EXCEPT !.timers = Rearm(@, t)], "poll")

\* the countdown's timer fires
CountdownFire ==
    \E t \in timers :
        /\ t.kind = "countdown"
        /\ now >= t.due
        /\ LET s1 == countdownCallback(St)
           IN  Becomes([s1 EXCEPT !.timers = Rearm(@, t)], "countdown")

\* reload(config)
Reload ==
    /\ Becomes(clearCurrentSignal(St), "reload")

\* destroy()
Destroy ==
    /\ Becomes(destroy(St), "destroy")

\* the clock moves on: no timer is left waiting longer than MaxLate, no tick is late,
\* a connection attempt has ended, and something is scheduled at all
Advance ==
    /\ now + TimeStep <= MaxTime
    /\ pendingInit = 0
    /\ timers # {} \/ subs # {}
    /\ \A t \in timers : now + TimeStep <= t.due + MaxLate
    /\ subs # {} => now + TimeStep <= tickDue
    /\ Becomes([St EXCEPT !.now = @ + TimeStep], "advance")

Next ==
    \/ InitializeCall
    \/ ConnectOk
    \/ DeliverTick
    \/ PollFire
    \/ CountdownFire
    \/ Reload
    \/ Destroy
    \/ Advance

Spec == Init /\ [][Next]_vars

\* Spec with its scheduling while a signal is active: a timer that is due runs its
\* callback, a tick that is due is delivered, and time passes.  The calls from outside
\* (initialize, reload, destroy) may or may not come.
Fairness ==
    /\ WF_vars(currentSignal # Null /\ DeliverTick)
    /\ WF_vars(currentSignal # Null /\ PollFire)
    /\ WF_vars(currentSignal # Null /\ CountdownFire)
    /\ WF_vars(currentSignal # Null /\ Advance)

\* reload(config) called when the countdown has just left ReloadRemaining seconds
ReloadLive ==
    /\ currentSignal # Null
    /\ lastOp = "countdown"
    /\ currentSignal[1].remainingSeconds = ReloadRemaining
    /\ Reload

NextLive ==
    \/ InitializeCall
    \/ ConnectOk
    \/ DeliverTick
    \/ PollFire
    \/ CountdownFire
    \/ ReloadLive
    \/ Destroy
    \/ Advance

SpecLive == Init /\ [][NextLive]_vars /\ Fairness

\* ------------------------------------------- a subscriber that throws
\* the detection poll's timer fires and the subscriber's callback throws when called
PollFireThrown ==
    \E t \in timers :
        /\ t.kind = "poll"
        /\ now >= t.due
        /\ LET s1 == checkAndGenerateSignalThrown(St)
           IN  /\ s1.thrown
               /\ Becomes([s1 EXCEPT !.timers = Rearm(@, t)], "poll")

NextThrow ==
    \/ InitializeCall
    \/ ConnectOk
    \/ DeliverTick
    \/ PollFire
    \/ PollFireThrown
    \/ CountdownFire
    \/ ReloadLive
    \/ Destroy
    \/ Advance

SpecThrow == Init /\ [][NextThrow]_vars

\* ------------------------------------------------- the analyzer on its own
\* a buffer of len ticks of which the first h are high (or, mirrored, low)
ProbeBuffer(len, h, highFirst) ==
    [i \in 1..len |-> [quote |-> MakeQuote((i <= h) = highFirst, i), epoch |-> i]]
ProbeBuffers ==
    { ProbeBuffer(len, h, hf) : len \in 0..MaxProbeLen, h \in 0..MaxProbeLen, hf \in BOOLEAN }

InitAnalyze ==
    /\ GenIdle
    /\ NoComponent
    /\ now = 0
    /\ isInitialized = TRUE
    /\ hasOnSignalUpdate = TRUE
    /\ currentSignal = Null
    /\ tickBuffer \in ProbeBuffers
    /\ unsubscribe = Null
    /\ countdownInterval = Null
    /\ signalGenerationInterval = Null
    /\ activeSignalIds = {}
    /\ timers = {}
    /\ subs = {}
    /\ pendingInit = 0
    /\ pendingRetry = 0
    /\ startCalls = 0
    /\ failures = 0
    /\ thrown = FALSE
    /\ orphanRetries = {}
    /\ nextTick = 1
    /\ tickDue = TickPeriod
    /\ notified = << >>
    /\ analysis = Null
    /\ ingested = tickBuffer
    /\ subscriberSaw = Null
    /\ rawDelivered = Null
    /\ lastOp = "init"

\* analyzeDistribution() applied to the buffer
Analyze ==
    /\ lastOp = "init"
    /\ Becomes([St EXCEPT !.analysis = Some(analyzeDistribution(tickBuffer))], "analyze")

\* checkAndGenerateSignal() applied to the same buffer
ProbePoll ==
    /\ lastOp = "init"
    /\ Becomes(checkAndGenerateSignal(St), "poll")

NextAnalyze ==
    \/ Analyze
    \/ ProbePoll

SpecAnalyze == InitAnalyze /\ [][NextAnalyze]_vars

\* ------------------------------------------- a destroy/initialize cycle
RestartTime == RestartStep * TimeStep

\* initialize() on a destroyed engine, at RestartTime, at most MaxStartCalls times
Restart ==
    /\ now = RestartTime
    /\ pendingInit = 0
    /\ ~isInitialized
    /\ startCalls < MaxStartCalls
    /\ Becomes([St EXCEPT !.hasOnSignalUpdate = TRUE, !.pendingInit = @ + 1,
                          !.startCalls = @ + 1], "initialize")

NextCycle ==
    \/ Next
    \/ Restart

SpecCycle == Init /\ [][NextCycle]_vars

\* ------------------------------------- starting and stopping the engine
\* initialize() and destroy() called at any time, also while a call awaits the
\* connection, against a tick source that may refuse the connection.
StartCall ==
    /\ pendingInit < MaxPending
    /\ IF isInitialized
       THEN Becomes(St, "initialize")
       ELSE /\ startCalls < MaxStartCalls
            /\ Becomes([St EXCEPT !.hasOnSignalUpdate = TRUE, !.pendingInit = @ + 1,
                                  !.startCalls = @ + 1], "initialize")

\* the connection attempt of an initialize() call fails: connectToDerivAPI
\* schedules the retry and throws, initialize() rethrows
ConnectFail ==
    /\ pendingInit > 0
    /\ failures < MaxFailures
    /\ \A t \in timers : ~(t.kind = "retry" /\ t.start = now)
    /\ Becomes([connectFailed(St) EXCEPT !.pendingInit = @ - 1, !.thrown = TRUE], "connectFail")

\* the retry's timeout fires
RetryFire ==
    \E t \in timers :
        /\ t.kind = "retry"
        /\ now >= t.due
        /\ LET s1 == retryCallback(St)
           IN  Becomes([s1 EXCEPT !.timers = @ \ {t},
                                  !.orphanRetries = @ \ {HandleOf(t)}], "retry")

\* the connection attempt of a retry succeeds
RetryConnectOk ==
    /\ pendingRetry > 0
    /\ Becomes([connectSucceeded(St) EXCEPT !.pendingRetry = @ - 1,
                                            !.tickDue = Max(@, now + TickPeriod)], "retryConnect")

\* the connection attempt of a retry fails: the next retry is scheduled, the
\* error goes to console.error
RetryConnectFail ==
    /\ pendingRetry > 0
    /\ failures < MaxFailures
    /\ \A t \in timers : ~(t.kind = "retry" /\ t.start = now)
    /\ Becomes([connectFailed(St) EXCEPT !.pendingRetry = @ - 1], "retryConnectFail")

\* the clock moves on, up to StartHorizon
AdvanceStart ==
    /\ now + TimeStep <= StartHorizon
    /\ pendingInit = 0
    /\ pendingRetry = 0
    /\ \A t \in timers : now + TimeStep <= t.due + MaxLate
    /\ subs # {} => now + TimeStep <= tickDue
    /\ Becomes([St EXCEPT !.now = @ + TimeStep], "advance")

NextStart ==
    \/ StartCall
    \/ ConnectOk
    \/ ConnectFail
    \/ RetryFire
    \/ RetryConnectOk
    \/ RetryConnectFail
    \/ DeliverTick
    \/ PollFire
    \/ Destroy
    \/ AdvanceStart

SpecStart == Init /\ [][NextStart]_vars

\* ------------------------------------------- the SignalOverlay component
\* One component instance is mounted, drives the engine through its Start
\* button and is unmounted at some time.
InitMount ==
    /\ EngineInit
    /\ GenIdle
    /\ ExtIdle
    /\ mounted = TRUE
    /\ engineInitialized = FALSE
    /\ isEngineRunning = FALSE

\* toggleEngine while the engine is not running, up to its await of initialize()
StartClick ==
    /\ mounted
    /\ ~isEngineRunning
    /\ UNCHANGED << genVars, extVars, mounted >>
    /\ IF engineInitialized
       THEN /\ isEngineRunning' = TRUE
            /\ engineInitialized' = engineInitialized
            /\ BecomesEngine(St, "start")
       ELSE IF isInitialized
            THEN /\ engineInitialized' = TRUE
                 /\ isEngineRunning' = TRUE
                 /\ BecomesEngine(St, "start")
            ELSE /\ pendingInit < MaxPending
                 /\ startCalls < MaxStartCalls
                 /\ UNCHANGED << engineInitialized, isEngineRunning >>
                 /\ BecomesEngine([St EXCEPT !.hasOnSignalUpdate = TRUE, !.pendingInit = @ + 1,
                                             !.startCalls = @ + 1], "start")

\* toggleEngine while the engine is running
StopClick ==
    /\ mounted
    /\ isEngineRunning
    /\ isEngineRunning' = FALSE
    /\ UNCHANGED << genVars, extVars, mounted, engineInitialized >>
    /\ BecomesEngine(St, "stop")

\* the connection is made: initialize() runs to its end and toggleEngine goes on
\* (setIsEngineRunning has no effect on an unmounted component)
StartConnectOk ==
    /\ pendingInit > 0
    /\ engineInitialized' = TRUE
    /\ isEngineRunning' = mounted
    /\ UNCHANGED << genVars, extVars, mounted >>
    /\ LET s1 == startSignalGeneration(connectSucceeded(St))
       IN  BecomesEngine([s1 EXCEPT !.isInitialized = TRUE, !.pendingInit = @ - 1,
                                    !.tickDue = Max(@, now + TickPeriod)], "connect")

\* the unmount effect
Unmount ==
    /\ mounted
    /\ mounted' = FALSE
    /\ engineInitialized' = FALSE
    /\ UNCHANGED << genVars, extVars, isEngineRunning >>
    /\ IF engineInitialized
       THEN BecomesEngine(destroy(St), "unmount")
       ELSE BecomesEngine(St, "unmount")

NextMount ==
    \/ StartClick
    \/ StopClick
    \/ StartConnectOk
    \/ ConnectFail
    \/ Unmount
    \/ RetryFire
    \/ RetryConnectOk
    \/ RetryConnectFail
    \/ DeliverTick
    \/ PollFire
    \/ AdvanceStart

SpecMount == InitMount /\ [][NextMount]_vars

\* ------------------------------------------- the tick callback on its own
\* the messages delivered to the callback
RawQuotes == { Undefined, NaN, Infinity, Str(3), Num(0), Num(2340512), Num(0 - 15000) }
RawEpochs == { Undefined, Num(0), Num(17) }
RawMessages ==
    { Null, Some([tick |-> Null]) }
        \cup { Some([tick |-> Some([quote |-> q, epoch |-> e])]) : q \in RawQuotes, e \in RawEpochs }

\* the engine, subscribed and polling
InitTicks ==
    /\ GenIdle
    /\ NoComponent
    /\ now = 0
    /\ isInitialized = TRUE
    /\ hasOnSignalUpdate = TRUE
    /\ currentSignal = Null
    /\ tickBuffer = << >>
    /\ unsubscribe = Some(1)
    /\ countdownInterval = Null
    /\ signalGenerationInterval = Some(Handle("poll", 0))
    /\ activeSignalIds = {}
    /\ timers = SetInterval({}, "poll", 0, SIGNAL_CHECK_INTERVAL)
    /\ subs = {1}
    /\ pendingInit = 0
    /\ pendingRetry = 0
    /\ startCalls = 0
    /\ failures = 0
    /\ thrown = FALSE
    /\ orphanRetries = {}
    /\ nextTick = 1
    /\ tickDue = TickPeriod
    /\ notified = << >>
    /\ analysis = Null
    /\ ingested = << >>
    /\ subscriberSaw = Null
    /\ rawDelivered = Null
    /\ lastOp = "init"

\* the upstream source delivers a message to the callback
DeliverRaw ==
    \E tickData \in RawMessages :
        /\ nextTick <= MaxRawTicks
        /\ Becomes([tickCallback(St, tickData) EXCEPT !.rawDelivered = Some(tickData),
                                                      !.nextTick = @ + 1], "tick")

NextTicks ==
    \/ DeliverRaw

SpecTicks == InitTicks /\ [][NextTicks]_vars

\* ------------------------------------------- the signal generator services
\* RealtimeOverSignalGeneratorService and FastOverSignalGeneratorService keep
\* their listeners in a Set: a listener function is in it once, in the order
\* of its insertion.  Listeners return normally.
Listeners == 1..MaxListeners
\* the signal lists a generation cycle can end with
SignalLists == { << >>, << "OVER" >> }

\* Set.prototype.add
SetAdd(set, x) == IF \E i \in 1..Len(set) : set[i] = x THEN set ELSE Append(set, x)
\* Set.prototype.delete
SetDelete(set, x) == SelectSeq(set, LAMBDA y : y # x)

\* notifyListeners(signals): the calls listeners.forEach makes
notifyListeners(set, signals) ==
    [i \in 1..Len(set) |-> [listener |-> set[i], signals |-> signals]]

\* mutant of unsubscribeClosure: unsubscribing empties the whole Set
unsubscribeClosure_clearsAll(set, listener) == << >>

\* the closure subscribe() returns: () => this.listeners.delete(listener)
unsubscribeClosure(set, listener) == SetDelete(set, listener)

InitGen ==
    /\ EngineInit
    /\ NoComponent
    /\ service \in {"realtime", "fast"}
    /\ listeners = << >>
    /\ currentSignals = << >>
    /\ generating = FALSE
    /\ closures = {}
    /\ released = {}
    /\ called = << >>
    /\ genOp = "init"

\* subscribe(listener); the fast service sends its current signals at once
GenSubscribe ==
    \E l \in Listeners :
        /\ listeners' = SetAdd(listeners, l)
        /\ called' = IF service = "fast" /\ Len(currentSignals) > 0
                     THEN << [listener |-> l, signals |-> currentSignals] >>
                     ELSE << >>
        /\ closures' = closures \cup {l}
        /\ released' = released \ {l}
        /\ genOp' = "subscribe"
        /\ UNCHANGED << service, currentSignals, generating, engineVars, uiVars, extVars >>

\* a closure subscribe() returned is called
GenUnsubscribe ==
    \E l \in closures :
        /\ listeners' = unsubscribeClosure(listeners, l)
        /\ released' = released \cup {l}
        /\ called' = << >>
        /\ genOp' = "unsubscribe"
        /\ UNCHANGED << service, currentSignals, generating, closures, engineVars, uiVars, extVars >>

\* the realtime service's generateSignals(): synchronous
GenerateRealtime ==
    /\ service = "realtime"
    /\ \E topSignals \in SignalLists : called' = notifyListeners(listeners, topSignals)
    /\ genOp' = "generate"
    /\ UNCHANGED << service, listeners, currentSignals, generating, closures, released,
                    engineVars, uiVars, extVars >>

\* the fast service's generateSignals(), up to its await of the scanners
GenerateFastBegin ==
    /\ service = "fast"
    /\ ~generating
    /\ generating' = TRUE
    /\ called' = << >>
    /\ genOp' = "scan"
    /\ UNCHANGED << service, listeners, currentSignals, closures, released, engineVars, uiVars, extVars >>

\* the fast service's generateSignals(), from the scanners' answer to its end
GenerateFastEnd ==
    /\ service = "fast"
    /\ generating
    /\ \E validSignals \in SignalLists :
          /\ currentSignals' = validSignals
          /\ called' = notifyListeners(listeners, validSignals)
    /\ generating' = FALSE
    /\ genOp' = "generate"
    /\ UNCHANGED << service, listeners, closures, released, engineVars, uiVars, extVars >>

NextGen ==
    \/ GenSubscribe
    \/ GenUnsubscribe
    \/ GenerateRealtime
    \/ GenerateFastBegin
    \/ GenerateFastEnd

SpecGen == InitGen /\ [][NextGen]_vars

\* ------------------------------- starting and stopping a generator service
MARKETS == 1..MaxMarkets

\* Map.prototype.set: an existing key keeps its place
MapSet(map, market, id) ==
    IF \E i \in 1..Len(map) : map[i].market = market
    THEN [i \in 1..Len(map) |-> IF map[i].market = market
                                 THEN [market |-> market, id |-> id] ELSE map[i]]
    ELSE Append(map, [market |-> market, id |-> id])

MapIds(map) == {map[i].id : i \in 1..Len(map)}

\* the id the API gives to a new subscription, the id setInterval returns
FreshId(used) == CHOOSE n \in 1..(Cardinality(used) + 1) : n \notin used

RemoveAt(q, i) == SubSeq(q, 1, i - 1) \o SubSeq(q, i + 1, Len(q))

InFlight(kind) == {i \in 1..Len(calls) : calls[i].kind = kind}

\* setInterval at the end of start(): the handle is stored over the old one
setGenerationInterval ==
    LET id == FreshId(liveIntervals)
    IN  /\ genInterval' = Some(id)
        /\ liveIntervals' = liveIntervals \cup {id}

\* start(), up to its first await
RunStart ==
    /\ runCalls < MaxRunCalls
    /\ runCalls' = runCalls + 1
    /\ genOp' = "start"
    /\ called' = << >>
    /\ IF isRunning
       THEN UNCHANGED << isRunning, calls >>
       ELSE /\ isRunning' = TRUE
            /\ calls' = Append(calls, [kind |-> "start", pos |-> 1])
    /\ UNCHANGED << genInterval, liveIntervals, subscriptions, liveSubs >>
    /\ UNCHANGED << service, listeners, currentSignals, generating, closures, released >>
    /\ UNCHANGED << engineVars, uiVars, secVars, premVars, authVars >>

\* the realtime service's start() resumes: subscribeToTicks has answered for one market
\* (with an id, or not), the next market is asked for, or the interval is set
RunStartResumeRealtime ==
    \E i \in InFlight("start"), granted \in BOOLEAN :
        /\ service = "realtime"
        /\ LET market == calls[i].pos
               subscriptionId == FreshId(liveSubs \cup MapIds(subscriptions))
           IN  /\ IF granted
                  THEN /\ liveSubs' = liveSubs \cup {subscriptionId}
                       /\ subscriptions' = MapSet(subscriptions, market, subscriptionId)
                  ELSE UNCHANGED << liveSubs, subscriptions >>
               /\ IF market < MaxMarkets
                  THEN /\ calls' = [calls EXCEPT ![i].pos = market + 1]
                       /\ UNCHANGED << genInterval, liveIntervals >>
                  ELSE /\ calls' = RemoveAt(calls, i)
                       /\ setGenerationInterval
        /\ genOp' = "startResume"
        /\ called' = << >>
        /\ UNCHANGED << isRunning, runCalls >>
        /\ UNCHANGED << service, listeners, currentSignals, generating, closures, released >>
        /\ UNCHANGED << engineVars, uiVars, secVars, premVars, authVars >>

\* the fast service's start() resumes: its first generateSignals() has ended, the
\* interval is set
RunStartResumeFast ==
    \E i \in InFlight("start"), validSignals \in SignalLists :
        /\ service = "fast"
        /\ currentSignals' = validSignals
        /\ called' = notifyListeners(listeners, validSignals)
        /\ calls' = RemoveAt(calls, i)
        /\ setGenerationInterval
        /\ genOp' = "startResume"
        /\ UNCHANGED << isRunning, runCalls, subscriptions, liveSubs >>
        /\ UNCHANGED << service, listeners, generating, closures, released >>
        /\ UNCHANGED << engineVars, uiVars, secVars, premVars, authVars >>

\* stop(), up to its first await (the fast service's stop() has none)
RunStop ==
    /\ runCalls < MaxRunCalls
    /\ runCalls' = runCalls + 1
    /\ genOp' = "stop"
    /\ called' = << >>
    /\ IF ~isRunning
       THEN UNCHANGED << isRunning, genInterval, liveIntervals, subscriptions, liveSubs,
                         calls, currentSignals >>
       ELSE /\ isRunning' = FALSE
            /\ IF genInterval # Null
               THEN /\ liveIntervals' = liveIntervals \ {genInterval[1]}
                    /\ genInterval' = Null
               ELSE UNCHANGED << genInterval, liveIntervals >>
            /\ IF service = "fast"
               THEN /\ currentSignals' = << >>
                    /\ UNCHANGED << subscriptions, liveSubs, calls >>
               ELSE /\ UNCHANGED currentSignals
                    /\ IF Len(subscriptions) >= 1
                       THEN /\ liveSubs' = liveSubs \ {subscriptions[1].id}
                            /\ calls' = Append(calls, [kind |-> "stop", pos |-> 1])
                            /\ UNCHANGED subscriptions
                       ELSE UNCHANGED << subscriptions, liveSubs, calls >>
    /\ UNCHANGED << service, listeners, generating, closures, released >>
    /\ UNCHANGED << engineVars, uiVars, secVars, premVars, authVars >>

\* the realtime service's stop() resumes: one unsubscribe has answered, the next entry
\* of the Map is unsubscribed, or the Map is cleared
RunStopResume ==
    \E i \in InFlight("stop") :
        /\ LET pos == calls[i].pos + 1
           IN  IF pos <= Len(subscriptions)
               THEN /\ liveSubs' = liveSubs \ {subscriptions[pos].id}
                    /\ calls' = [calls EXCEPT ![i].pos = pos]
                    /\ UNCHANGED subscriptions
               ELSE /\ subscriptions' = << >>
                    /\ calls' = RemoveAt(calls, i)
                    /\ UNCHANGED liveSubs
        /\ genOp' = "stopResume"
        /\ called' = << >>
        /\ UNCHANGED << isRunning, genInterval, liveIntervals, runCalls >>
        /\ UNCHANGED << service, listeners, currentSignals, generating, closures, released >>
        /\ UNCHANGED << engineVars, uiVars, secVars, premVars, authVars >>

\* an interval's callback runs: generateSignals(), the fast service's up to its await
RunIntervalFire ==
    \E id \in liveIntervals :
        /\ IF service = "realtime"
           THEN /\ \E topSignals \in SignalLists :
                      called' = notifyListeners(listeners, topSignals)
                /\ UNCHANGED calls
           ELSE /\ Cardinality(InFlight("generate")) < MaxGenerating
                /\ calls' = Append(calls, [kind |-> "generate", pos |-> 1])
                /\ called' = << >>
        /\ genOp' = "interval"
        /\ UNCHANGED << isRunning, genInterval, liveIntervals, subscriptions, liveSubs, runCalls >>
        /\ UNCHANGED << service, listeners, currentSignals, generating, closures, released >>
        /\ UNCHANGED << engineVars, uiVars, secVars, premVars, authVars >>

\* a generateSignals() of the fast service resumes: the scanners have answered
RunGenerateResume ==
    \E i \in InFlight("generate"), validSignals \in SignalLists :
        /\ currentSignals' = validSignals
        /\ called' = notifyListeners(listeners, validSignals)
        /\ calls' = RemoveAt(calls, i)
        /\ genOp' = "generate"
        /\ UNCHANGED << isRunning, genInterval, liveIntervals, subscriptions, liveSubs, runCalls >>
        /\ UNCHANGED << service, listeners, generating, closures, released >>
        /\ UNCHANGED << engineVars, uiVars, secVars, premVars, authVars >>

\* subscribe(listener) on a service that is started and stopped
RunSubscribe ==
    /\ Len(listeners) < MaxRunListeners
    /\ GenSubscribe

InitRun == InitGen

NextRun ==
    \/ RunSubscribe
    \/ RunStart
    \/ RunStartResumeRealtime
    \/ RunStartResumeFast
    \/ RunStop
    \/ RunStopResume
    \/ RunIntervalFire
    \/ RunGenerateResume

SpecRun == InitRun /\ [][NextRun]_vars

\* ------------------------------------------------------ ApiTokenAuthService
Tokens == {"A", "B"}

\* what api.send({ authorize: token }) does: it answers with the authorize object,
\* answers with an error, or throws (so does generateDerivApiInstance())
AuthOutcomes == {"authorized", "error", "throws"}

\* authenticate(token), up to its await
AuthCall(token) ==
    /\ authCount < MaxAuthCalls
    /\ Len(authCalls) < MaxAuthInFlight
    /\ authCalls' = Append(authCalls, token)
    /\ authCount' = authCount + 1
    /\ authResult' = Null
    /\ UNCHANGED << authToken, isAuthenticated, storedToken, succeeded >>
    /\ UNCHANGED << engineVars, genVars, uiVars, secVars, premVars, runVars >>

authenticate ==
    \E token \in Tokens :
        /\ AuthCall(token)
        /\ authOp' = "authenticate"

\* autoAuthenticate(): authenticate(this.authToken) when there is a token
autoAuthenticate ==
    /\ authToken # Null
    /\ AuthCall(authToken[1])
    /\ authOp' = "autoAuthenticate"

\* authenticate(token) resumes with the answer and returns; storeToken() may fail
AuthResume ==
    \E i \in 1..Len(authCalls), outcome \in AuthOutcomes, stores \in BOOLEAN :
        /\ authCalls' = SubSeq(authCalls, 1, i - 1) \o SubSeq(authCalls, i + 1, Len(authCalls))
        /\ authOp' = "authResume"
        /\ IF outcome = "authorized"
           THEN /\ authToken' = Some(authCalls[i])
                /\ isAuthenticated' = TRUE
                /\ storedToken' = IF stores THEN Some(authCalls[i]) ELSE storedToken
                /\ succeeded' = TRUE
                /\ authResult' = Some([success |-> TRUE, token |-> authCalls[i],
                                       outcome |-> outcome])
           ELSE /\ authResult' = Some([success |-> FALSE, token |-> authCalls[i],
                                       outcome |-> outcome])
                /\ UNCHANGED << authToken, isAuthenticated, storedToken, succeeded >>
        /\ UNCHANGED authCount
        /\ UNCHANGED << engineVars, genVars, uiVars, secVars, premVars, runVars >>

\* logout(); clearStoredToken() may fail
logout ==
    \E clears \in BOOLEAN :
        /\ authToken' = Null
        /\ isAuthenticated' = FALSE
        /\ storedToken' = IF clears THEN Null ELSE storedToken
        /\ succeeded' = FALSE
        /\ authResult' = Null
        /\ authOp' = "logout"
        /\ UNCHANGED << authCalls, authCount >>
        /\ UNCHANGED << engineVars, genVars, uiVars, secVars, premVars, runVars >>

\* the page is loaded again: a new ApiTokenAuthService over the same localStorage
AuthPageLoad ==
    /\ authToken' = loadStoredToken(storedToken).authToken
    /\ isAuthenticated' = loadStoredToken(storedToken).isAuthenticated
    /\ authCalls' = << >>
    /\ succeeded' = FALSE
    /\ authResult' = Null
    /\ authOp' = "construct"
    /\ UNCHANGED << storedToken, authCount >>
    /\ UNCHANGED << engineVars, genVars, uiVars, secVars, premVars, runVars >>

InitAuth ==
    /\ EngineInit
    /\ GenIdle
    /\ mounted = FALSE
    /\ engineInitialized = FALSE
    /\ isEngineRunning = FALSE
    /\ SecIdle
    /\ PremIdle
    /\ RunIdle
    /\ \E stored \in {Null} \cup {Some(t) : t \in Tokens} : AuthConstructed(stored)

NextAuth ==
    \/ authenticate
    \/ autoAuthenticate
    \/ AuthResume
    \/ logout
    \/ AuthPageLoad

SpecAuth == InitAuth /\ [][NextAuth]_vars

\* ------------------------------------------------ the secret access system
secretCode == << "p", "i", "p", "n", "o", "v", "a", "6", "7", "7", "6" >>

\* a key that is not in the code
OtherKey == "x"

checkSequence(seq) ==
    /\ Len(seq) = Len(secretCode)
    /\ \A index \in 1..Len(seq) : seq[index] = secretCode[index]

\* sequence.push(key), then shift() while longer than the code
pushKey(seq, key) ==
    LET pushed == Append(seq, key)
    IN  IF Len(pushed) > Len(secretCode) THEN Tail(pushed) ELSE pushed

\* how much of the code the last keys pressed spell
Progress(seq) ==
    LET fits == {k \in 0..Min(Len(seq), Len(secretCode) - 1) :
                    SubSeq(seq, Len(seq) - k + 1, Len(seq)) = SubSeq(secretCode, 1, k)}
    IN  CHOOSE k \in fits : \A j \in fits : j <= k

InOrderKey(seq, key) == key = secretCode[Progress(seq) + 1]

\* the keys that are pressed: the one that continues the code, and one that is not in it
Keys(seq) == {secretCode[Progress(seq) + 1], OtherKey}

\* the keydown listener, the target being no input field
KeyDown ==
    \E key \in Keys(sequence) :
        /\ completions < MaxCompletions
        /\ InOrderKey(sequence, key) \/ wrongKeys < MaxWrongKeys
        /\ wrongKeys' = IF InOrderKey(sequence, key) THEN wrongKeys ELSE wrongKeys + 1
        /\ lastKey' = Some(key)
        /\ secOp' = "keydown"
        /\ IF checkSequence(pushKey(sequence, key))
           THEN /\ isSequenceComplete' = TRUE
                /\ sequence' = << >>
                /\ flagTimers' = flagTimers \cup {secNow + SEQUENCE_COMPLETE_TIMEOUT}
                /\ completions' = completions + 1
           ELSE /\ sequence' = pushKey(sequence, key)
                /\ UNCHANGED << isSequenceComplete, flagTimers, completions >>
        /\ timer' = Some(secNow + SEQUENCE_TIMEOUT)
        /\ UNCHANGED << secNow, logoClickCount, logoClickTimer, reloadTimers, fakeRealMode,
                        clickLog >>
        /\ UNCHANGED << engineVars, genVars, uiVars, premVars, runVars, authVars >>

\* the keydown listener, the target being an input or a textarea
KeyDownInField ==
    \E key \in Keys(sequence) :
        /\ lastKey' = Some(key)
        /\ secOp' = "keydownInField"
        /\ UNCHANGED << secNow, sequence, timer, isSequenceComplete, flagTimers,
                        logoClickCount, logoClickTimer, reloadTimers, fakeRealMode,
                        wrongKeys, clickLog, completions >>
        /\ UNCHANGED << engineVars, genVars, uiVars, premVars, runVars, authVars >>

\* the timeout of line 73: the sequence is forgotten
SequenceTimeout ==
    /\ timer # Null
    /\ secNow >= timer[1]
    /\ sequence' = << >>
    /\ timer' = Null
    /\ lastKey' = Null
    /\ secOp' = "sequenceTimeout"
    /\ UNCHANGED << secNow, isSequenceComplete, flagTimers, logoClickCount, logoClickTimer,
                    reloadTimers, fakeRealMode, wrongKeys, clickLog, completions >>
    /\ UNCHANGED << engineVars, genVars, uiVars, premVars, runVars, authVars >>

\* the timeout of line 67: the completed sequence lapses
CompleteTimeout ==
    \E due \in flagTimers :
        /\ secNow >= due
        /\ isSequenceComplete' = FALSE
        /\ flagTimers' = flagTimers \ {due}
        /\ lastKey' = Null
        /\ secOp' = "completeTimeout"
        /\ UNCHANGED << secNow, sequence, timer, logoClickCount, logoClickTimer,
                        reloadTimers, fakeRealMode, wrongKeys, clickLog, completions >>
        /\ UNCHANGED << engineVars, genVars, uiVars, premVars, runVars, authVars >>

\* handleLogoClick(), toggleFakeRealMode() included
handleLogoClick ==
    /\ lastKey' = Null
    /\ IF ~isSequenceComplete
       THEN /\ secOp' = "clickIgnored"
            /\ UNCHANGED << logoClickCount, logoClickTimer, isSequenceComplete,
                            fakeRealMode, reloadTimers, clickLog >>
       ELSE IF logoClickCount + 1 >= LOGO_CLICKS
            THEN /\ secOp' = "toggle"
                 /\ fakeRealMode' = ~fakeRealMode
                 /\ reloadTimers' = reloadTimers \cup {secNow + RELOAD_DELAY}
                 /\ logoClickCount' = 0
                 /\ isSequenceComplete' = FALSE
                 /\ logoClickTimer' = Null
                 /\ clickLog' = << >>
            ELSE /\ secOp' = "click"
                 /\ logoClickCount' = logoClickCount + 1
                 /\ logoClickTimer' = Some(secNow + LOGO_CLICK_TIMEOUT)
                 /\ clickLog' = Append(clickLog, secNow)
                 /\ UNCHANGED << isSequenceComplete, fakeRealMode, reloadTimers >>
    /\ UNCHANGED << secNow, sequence, timer, flagTimers, wrongKeys, completions >>
    /\ UNCHANGED << engineVars, genVars, uiVars, premVars, runVars, authVars >>

\* the timeout of line 106: the clicks counted so far are forgotten
LogoClickTimeout ==
    /\ logoClickTimer # Null
    /\ secNow >= logoClickTimer[1]
    /\ logoClickCount' = 0
    /\ logoClickTimer' = Null
    /\ clickLog' = << >>
    /\ lastKey' = Null
    /\ secOp' = "logoClickTimeout"
    /\ UNCHANGED << secNow, sequence, timer, isSequenceComplete, flagTimers, reloadTimers,
                    fakeRealMode, wrongKeys, completions >>
    /\ UNCHANGED << engineVars, genVars, uiVars, premVars, runVars, authVars >>

\* window.location.reload(): a new page, a new SecretAccessSystem, the same localStorage
PageReload ==
    \E due \in reloadTimers :
        /\ secNow >= due
        /\ sequence' = << >>
        /\ timer' = Null
        /\ isSequenceComplete' = FALSE
        /\ flagTimers' = {}
        /\ logoClickCount' = 0
        /\ logoClickTimer' = Null
        /\ reloadTimers' = {}
        /\ clickLog' = << >>
        /\ lastKey' = Null
        /\ secOp' = "reload"
        /\ UNCHANGED << secNow, fakeRealMode, wrongKeys, completions >>
        /\ UNCHANGED << engineVars, genVars, uiVars, premVars, runVars, authVars >>

\* the due times of the pending timeouts of the page
SecDue ==
    flagTimers \cup reloadTimers
        \cup (IF timer = Null THEN {} ELSE {timer[1]})
        \cup (IF logoClickTimer = Null THEN {} ELSE {logoClickTimer[1]})

\* time passes; a timeout runs at the first instant at or after its due time
SecAdvance ==
    /\ secNow + TimeStep <= SecHorizon
    /\ \A due \in SecDue : secNow < due
    /\ secNow' = secNow + TimeStep
    /\ lastKey' = Null
    /\ secOp' = "advance"
    /\ UNCHANGED << sequence, timer, isSequenceComplete, flagTimers, logoClickCount,
                    logoClickTimer, reloadTimers, fakeRealMode, wrongKeys, clickLog,
                    completions >>
    /\ UNCHANGED << engineVars, genVars, uiVars, premVars, runVars, authVars >>

InitSecret ==
    /\ EngineInit
    /\ GenIdle
    /\ NoComponent

NextSecret ==
    \/ KeyDown
    \/ KeyDownInField
    \/ SequenceTimeout
    \/ CompleteTimeout
    \/ handleLogoClick
    \/ LogoClickTimeout
    \/ PageReload
    \/ SecAdvance

SpecSecret == InitSecret /\ [][NextSecret]_vars

\* ------------------------------------------------------------ premium access
\* Strings are sequences of characters.  The content of the whitelist (the file
\* premium-whitelist.json, or the localStorage item pipnova_premium_accounts) is
\*   "absent"   no premiumAccounts property (no localStorage item)
\*   "invalid"  not JSON: json() / JSON.parse throws
\*   "nulldata" the JSON value null
\*   "array"    an array of strings, items
\*   "string"   a string, items[1]
\*   "number"   a number other than 0
\*   "null"     premiumAccounts: null
LoginIds ==
    { << >>, << "C", "R", "1" >>, << "c", "r", "1" >>, << "C", "R" >>, << "C", "R", "1", "2" >> }

Whitelists ==
    {[kind |-> k, items |-> << >>] : k \in {"absent", "invalid", "nulldata", "number", "null"}}
        \cup {[kind |-> "array", items |-> << >>]}
        \cup {[kind |-> "array", items |-> << a >>] : a \in LoginIds}
        \cup {[kind |-> "array", items |-> << << "C", "R", "1" >>, << "C", "R", "1", "2" >> >>]}
        \cup {[kind |-> "string", items |-> << a >>] : a \in LoginIds}

\* Array.prototype.includes on an array of strings
ArrayIncludes(items, x) == \E i \in 1..Len(items) : items[i] = x

\* String.prototype.includes
StringIncludes(str, x) ==
    \E i \in 0..(Len(str) - Len(x)) : SubSeq(str, i + 1, i + Len(x)) = x

\* premiumAccounts.includes(activeLoginId), premiumAccounts being any truthy value;
\* a number has no includes: a TypeError
Includes(w, x) ==
    CASE w.kind = "array" -> [threw |-> FALSE, value |-> ArrayIncludes(w.items, x)]
      [] w.kind = "string" -> [threw |-> FALSE, value |-> StringIncludes(w.items[1], x)]
      [] OTHER -> [threw |-> TRUE, value |-> FALSE]

\* data.premiumAccounts || []
OrEmptyArray(w) ==
    IF w.kind \in {"absent", "null"} \/ (w.kind = "string" /\ w.items[1] = << >>)
    THEN [kind |-> "array", items |-> << >>]
    ELSE w

\* the body of the try block of the fetching hasPremiumAccess
fetchedBody(id, outcome, w) ==
    IF id = Null \/ id = Some(<< >>) THEN [threw |-> FALSE, value |-> FALSE]
    ELSE IF outcome = "rejects" THEN [threw |-> TRUE, value |-> FALSE]
    ELSE IF outcome = "notOk" THEN [threw |-> FALSE, value |-> FALSE]
    ELSE IF w.kind \in {"invalid", "nulldata"} THEN [threw |-> TRUE, value |-> FALSE]
    ELSE Includes(OrEmptyArray(w), id[1])

\* try { ... } catch (error) { return false }; threw says whether the call throws
hasPremiumAccess(id, outcome, w) ==
    LET body == fetchedBody(id, outcome, w)
    IN  [threw |-> FALSE, value |-> IF body.threw THEN FALSE ELSE body.value]

\* the body of the try block of the localStorage variant
storedBody(id, accounts, w) ==
    IF accounts = "absent" THEN [threw |-> FALSE, value |-> FALSE]
    ELSE IF accounts = "invalid" THEN [threw |-> TRUE, value |-> FALSE]
    ELSE IF id = Null \/ id = Some(<< >>) THEN [threw |-> FALSE, value |-> FALSE]
    ELSE IF w.kind = "absent" \/ (w.kind = "string" /\ w.items[1] = << >>)
         THEN [threw |-> FALSE, value |-> FALSE]
    ELSE IF w.kind \in {"invalid", "nulldata", "null"} THEN [threw |-> TRUE, value |-> FALSE]
    ELSE Includes(w, id[1])

hasPremiumAccessStored(id, accounts, w) ==
    LET body == storedBody(id, accounts, w)
    IN  [threw |-> FALSE, value |-> IF body.threw THEN FALSE ELSE body.value]

\* the user logs in or out: active_loginid and accountsList are written
SetLogin ==
    \E id \in {Null} \cup {Some(a) : a \in LoginIds}, accounts \in {"absent", "invalid", "valid"} :
        /\ active_loginid' = id
        /\ accountsList' = accounts
        /\ premOp' = "login"
        /\ UNCHANGED << whitelist, fetchOutcome, premResult >>
        /\ UNCHANGED << engineVars, genVars, uiVars, secVars, runVars, authVars >>

\* a whitelist is deployed, the server answers or not
Deploy ==
    \E w \in Whitelists, outcome \in {"ok", "notOk", "rejects"} :
        /\ whitelist' = w
        /\ fetchOutcome' = outcome
        /\ premOp' = "deploy"
        /\ UNCHANGED << active_loginid, accountsList, premResult >>
        /\ UNCHANGED << engineVars, genVars, uiVars, secVars, runVars, authVars >>

CheckFetched ==
    /\ premResult' = Some(hasPremiumAccess(active_loginid, fetchOutcome, whitelist))
    /\ premOp' = "hasPremiumAccess"
    /\ UNCHANGED << active_loginid, accountsList, whitelist, fetchOutcome >>
    /\ UNCHANGED << engineVars, genVars, uiVars, secVars, runVars, authVars >>

CheckStored ==
    /\ premResult' = Some(hasPremiumAccessStored(active_loginid, accountsList, whitelist))
    /\ premOp' = "hasPremiumAccessStored"
    /\ UNCHANGED << active_loginid, accountsList, whitelist, fetchOutcome >>
    /\ UNCHANGED << engineVars, genVars, uiVars, secVars, runVars, authVars >>

InitPremium ==
    /\ EngineInit
    /\ GenIdle
    /\ NoComponent

NextPremium ==
    \/ SetLogin
    \/ Deploy
    \/ CheckFetched
    \/ CheckStored

SpecPremium == InitPremium /\ [][NextPremium]_vars

\* ----------------------------------------------------------- properties
\* What the properties read off a state, computed apart from the engine's code.
LastN(q, n) == SubSeq(q, Max(1, Len(q) - n + 1), Len(q))
SecondDecimal(quote) == (quote \div (QuoteScale \div 100)) % 10
HighCount(w) == Cardinality({i \in 1..Len(w) : SecondDecimal(w[i].quote) \in 5..9})
LowCount(w) == Cardinality({i \in 1..Len(w) : SecondDecimal(w[i].quote) \in 0..4})
\* the window a poll analyses: the last 50 ticks of the buffer
Window == LastN(tickBuffer, 50)
HighDominates == HighCount(Window) * 100 > 60 * Len(Window)
LowDominates == LowCount(Window) * 100 > 60 * Len(Window)
DominantCount == Max(HighCount(Window), LowCount(Window))
\* the last step was a poll that emitted a signal
Created == lastOp = "poll" /\ notified # << >>
CreatedSignal == notified[1][1]

\* C1: at most one signal is active at any instant; while currentSignal is
\* non-null no step replaces it by another signal.
C1_AtMostOneSignal ==
    [][ /\ Cardinality(activeSignalIds') <= 1
        /\ currentSignal # Null =>
             \/ currentSignal' = Null
             \/ currentSignal'[1].id = currentSignal[1].id ]_vars

\* a poll found a window with a dominant side while a signal was active, and did nothing
C1_Witness ==
    /\ lastOp = "poll"
    /\ currentSignal # Null
    /\ notified = << >>
    /\ Len(tickBuffer) >= 50
    /\ HighDominates \/ LowDominates

\* C2: the buffer never holds more than 100 ticks and always equals the most
\* recent 100 ticks handleTickData received (since the last reset), in order.
C2_BufferIsLast100 ==
    /\ Len(tickBuffer) <= 100
    /\ tickBuffer = LastN(ingested, 100)

\* more than 100 ticks came in: the oldest were evicted
C2_Witness ==
    /\ lastOp = "tick"
    /\ Len(ingested) > 100
    /\ Len(tickBuffer) = 100
    /\ tickBuffer[1] = ingested[Len(ingested) - 99]

\* C3: only a poll makes the engine Active, and only with at least 50 ticks, a
\* confidence of at least 65 and a bias other than NEUTRAL; a poll with fewer
\* than 50 ticks (49 in particular) creates no signal and notifies nobody.
C3_PollGate ==
    [][ /\ (currentSignal = Null /\ currentSignal' # Null) =>
             /\ lastOp' = "poll"
             /\ Len(tickBuffer) >= 50
             /\ analysis' # Null
             /\ analysis'[1].confidenceScore.num >= 65 * analysis'[1].confidenceScore.den
             /\ analysis'[1].bias # "NEUTRAL"
        /\ (lastOp' = "poll" /\ Len(tickBuffer) < 50) =>
             /\ currentSignal' = currentSignal
             /\ notified' = << >> ]_vars

\* a poll fired on 49 ticks, 31 of them high, and left the engine Idle and silent
C3_Witness ==
    /\ lastOp = "poll"
    /\ Len(tickBuffer) = 49
    /\ HighCount(Window) = 31
    /\ currentSignal = Null
    /\ notified = << >>

\* C4: an emitted signal is UNDER when high digits are more than 60% of the
\* analysed window and OVER when low digits are; 31 high of 50 gives UNDER
\* with confidence 67.
C4_MeanReversion ==
    Created =>
        /\ HighDominates \/ LowDominates
        /\ HighDominates => CreatedSignal.type = "UNDER"
        /\ LowDominates => CreatedSignal.type = "OVER"
        /\ (Len(Window) = 50 /\ HighCount(Window) = 31) =>
               (CreatedSignal.type = "UNDER" /\ CreatedSignal.confidence = 67)

\* the scenario: 31 high and 19 low
C4_Witness ==
    /\ Created
    /\ Len(tickBuffer) = 50
    /\ HighCount(Window) = 31
    /\ LowCount(Window) = 19
    /\ CreatedSignal.type = "UNDER"
    /\ CreatedSignal.confidence = 67
    /\ currentSignal = Some(CreatedSignal)

C6_Neutral ==
    analysis # Null =>
        /\ (analysis[1].bias = "NEUTRAL") <=> ~(HighDominates \/ LowDominates)
        /\ (Len(Window) = 50 /\ (HighCount(Window) = 30 \/ LowCount(Window) = 30)) =>
               analysis[1].bias = "NEUTRAL"
        /\ analysis[1].bias = "NEUTRAL" => (notified = << >> /\ currentSignal = Null)

\* a poll analysed a window split exactly 60/40 and stayed Idle
C6_Witness ==
    /\ lastOp = "poll"
    /\ analysis # Null
    /\ Len(Window) = 50
    /\ HighCount(Window) = 30
    /\ LowCount(Window) = 20
    /\ analysis[1].bias = "NEUTRAL"
    /\ currentSignal = Null
    /\ notified = << >>

\* C7 as stated: for every buffer of fewer than 50 ticks analyzeDistribution
\* returns bias NEUTRAL and confidence 0.
C7_Original ==
    (lastOp = "analyze" /\ Len(tickBuffer) < 50) =>
        /\ analysis[1].bias = "NEUTRAL"
        /\ FracEq(analysis[1].confidenceScore, Whole(0))

\* C7 amended: on a buffer of fewer than 50 ticks the poll returns before the
\* analysis (no snapshot, no signal, no notification); analyzeDistribution itself
\* analyses the ticks there are: NEUTRAL exactly when neither side is above 60%,
\* then with confidence 50, and otherwise a bias with confidence of at least 65.
C7_ShortBuffer ==
    Len(tickBuffer) < 50 =>
        /\ lastOp = "poll" => (analysis = Null /\ currentSignal = Null /\ notified = << >>)
        /\ lastOp = "analyze" =>
             LET a == analysis[1]
             IN  /\ (a.bias = "NEUTRAL") <=> ~(HighDominates \/ LowDominates)
                 /\ a.bias = "NEUTRAL" => a.confidenceScore = Whole(50)
                 /\ a.bias # "NEUTRAL" => a.confidenceScore.num >= 65 * a.confidenceScore.den

\* the analyzer reports a bias on 49 ticks
C7_Witness ==
    /\ lastOp = "analyze"
    /\ Len(tickBuffer) = 49
    /\ HighCount(Window) = 31
    /\ analysis[1].bias = "UNDER"

\* C8 as stated: the snapshot's bias names the dominant side, and the controller
\* inverts it when it builds the signal.
C8_Original ==
    analysis # Null =>
        /\ HighDominates => analysis[1].bias = "OVER"
        /\ LowDominates => analysis[1].bias = "UNDER"
        /\ Created => CreatedSignal.type # analysis[1].bias

\* C8 amended: the snapshot's bias already names the side opposite to the
\* dominant one, and the controller copies it unchanged into the signal's type.
C8_BiasIsPrediction ==
    analysis # Null =>
        /\ HighDominates => analysis[1].bias = "UNDER"
        /\ LowDominates => analysis[1].bias = "OVER"
        /\ Created => CreatedSignal.type = analysis[1].bias

\* low digits dominate: the snapshot says OVER and so does the signal
C8_Witness ==
    /\ Created
    /\ LowDominates
    /\ analysis[1].bias = "OVER"
    /\ CreatedSignal.type = "OVER"

\* C9: a signal has expiresAt = createdAt + 120 s, its creation notification
\* carries remainingSeconds = 120, and expiresAt is the same for as long as the
\* signal is active.
C9_Expiry ==
    [][ /\ currentSignal' # Null =>
             currentSignal'[1].expiresAt = currentSignal'[1].createdAt + 120000
        /\ (lastOp' = "poll" /\ notified' # << >>) =>
             /\ notified' = << currentSignal' >>
             /\ currentSignal' # Null
             /\ currentSignal'[1].createdAt = now'
             /\ currentSignal'[1].remainingSeconds = 120
        /\ (currentSignal # Null /\ currentSignal' # Null) =>
             currentSignal'[1].expiresAt = currentSignal[1].expiresAt ]_vars

\* half of a signal's life has passed
C9_Witness ==
    /\ lastOp = "countdown"
    /\ currentSignal # Null
    /\ currentSignal[1].remainingSeconds = 60
    /\ currentSignal[1].expiresAt = currentSignal[1].createdAt + 120000
    /\ now = currentSignal[1].createdAt + 60000

\* C10: the remainingSeconds delivered for the active signal never go up, are
\* never negative, and are 0 only at or after the signal's expiresAt.
C10_Countdown ==
    [][ \A k \in 1..Len(notified') :
          notified'[k] # Null =>
            /\ notified'[k][1].remainingSeconds >= 0
            /\ (currentSignal # Null /\ notified'[k][1].id = currentSignal[1].id) =>
                 notified'[k][1].remainingSeconds <= currentSignal[1].remainingSeconds
            /\ notified'[k][1].remainingSeconds = 0 => now' >= notified'[k][1].expiresAt ]_vars

\* C11: a countdown tick that computes remainingSeconds = 0 (less than a second
\* is left) ends the signal in that same tick: currentSignal is null, the
\* countdown timer is cancelled, and the subscriber has received the update
\* carrying 0 and then null, once; a tick with time left keeps the signal.
C11_ExpiryInSameTick ==
    [][ (lastOp' = "countdown" /\ currentSignal # Null) =>
          IF currentSignal[1].expiresAt - now' < 1000
          THEN /\ currentSignal' = Null
               /\ countdownInterval' = Null
               /\ { t \in timers' : t.kind = "countdown" } = {}
               /\ activeSignalIds' = {}
               /\ notified' = << Some([currentSignal[1] EXCEPT !.remainingSeconds = 0]), Null >>
          ELSE /\ currentSignal' # Null
               /\ countdownInterval' = countdownInterval
               /\ Len(notified') = 1
               /\ notified'[1] = currentSignal'
               /\ currentSignal'[1].remainingSeconds > 0 ]_vars

\* the countdown has just run out
C11_Witness ==
    /\ lastOp = "countdown"
    /\ Len(notified) = 2
    /\ notified[1] # Null
    /\ notified[1][1].remainingSeconds = 0
    /\ notified[2] = Null
    /\ currentSignal = Null
    /\ countdownInterval = Null
    /\ { t \in timers : t.kind = "countdown" } = {}

C13_DestroyNotifies ==
    [][ (lastOp' = "destroy" /\ currentSignal # Null) =>
          \E k \in 1..Len(notified') : notified'[k] = Null ]_vars

\* a call of onSignalUpdate(x) is in order for a subscriber that has seen saw:
\* null ends a signal that is shown; a signal is the one shown, or a newer one
InOrder(saw, x) ==
    IF x = Null
    THEN saw # Null /\ ~saw[1].cleared
    ELSE \/ saw = Null
         \/ x[1].id = saw[1].id /\ ~saw[1].cleared
         \/ x[1].id # saw[1].id /\ x[1].createdAt > saw[1].createdAt

\* C14: the subscriber is called in the order of the transitions: a signal's
\* creation, then one update per countdown tick, then one null; after that
\* null nothing more about that signal, and nothing about an older signal once
\* a newer one has been announced.
C14_InOrder ==
    [][ /\ Len(notified') <= 2
        /\ Len(notified') >= 1 => InOrder(subscriberSaw, notified'[1])
        /\ Len(notified') = 2 => InOrder(Saw(subscriberSaw, notified'[1]), notified'[2])
        /\ (lastOp' = "countdown" /\ currentSignal # Null) =>
             /\ notified' # << >>
             /\ notified'[1] # Null
             /\ notified'[1][1].id = currentSignal[1].id
             /\ Len(notified') = 2 => notified'[2] = Null
        /\ (lastOp' = "poll" /\ notified' # << >>) =>
             /\ Len(notified') = 1
             /\ notified'[1] # Null
             /\ subscriberSaw # Null => notified'[1][1].id # subscriberSaw[1].id ]_vars

\* an update of a signal that is not the first one (the first is created by 35.5 s)
C14_Witness ==
    /\ lastOp = "countdown"
    /\ Len(notified) = 1
    /\ notified[1] # Null
    /\ notified[1][1].createdAt >= 40000
    /\ notified[1][1].remainingSeconds < 120
    /\ subscriberSaw = Some([id |-> notified[1][1].id, createdAt |-> notified[1][1].createdAt,
                              cleared |-> FALSE])

\* C15: once the unsubscribe closure of a listener has been called, no later
\* generation cycle calls that listener (until it subscribes again), and a
\* cycle calls every other subscribed listener, once.
C15_Unsubscribed ==
    [][ genOp' = "generate" =>
          /\ \A k \in 1..Len(called') : called'[k].listener \notin released
          /\ \A l \in closures \ released :
                Cardinality({ k \in 1..Len(called') : called'[k].listener = l }) = 1 ]_vars

\* a cycle called the two listeners that remain after a third unsubscribed
C15_Witness ==
    /\ genOp = "generate"
    /\ Cardinality(released) = 1
    /\ Len(called) = 2
    /\ \A k \in 1..Len(called) : called[k].listener \notin released
    /\ called[1].listener # called[2].listener

\* the message carries a tick with a finite numeric quote and an epoch (not 0)
FiniteQuoteAndEpoch(tickData) ==
    /\ tickData # Null
    /\ tickData[1].tick # Null
    /\ tickData[1].tick[1].quote.kind = "number"
    /\ tickData[1].tick[1].epoch.kind = "number"
    /\ tickData[1].tick[1].epoch.num # 0

\* C16: a delivered message without a finite numeric quote is dropped (buffer
\* unchanged, nobody notified); every tick with a finite numeric quote and an
\* epoch is appended.
C16_FiniteQuotesOnly ==
    [][ rawDelivered' # Null =>
          IF FiniteQuoteAndEpoch(rawDelivered'[1])
          THEN /\ Len(tickBuffer') = Len(tickBuffer) + 1
               /\ tickBuffer'[Len(tickBuffer')].quote = rawDelivered'[1][1].tick[1].quote.num
          ELSE /\ Len(tickBuffer') = Len(tickBuffer)
               /\ notified' = << >> ]_vars

\* C17: a connection failure during initialize() is thrown to the caller and
\* a retry is scheduled 5 s later; when that time has come the engine makes a
\* new connection attempt, unless it is connected or was destroyed meanwhile.
C17_RetryAfterFailure ==
    [][ /\ lastOp' = "connectFail" =>
             /\ thrown'
             /\ \E t \in timers' : t.kind = "retry" /\ t.due = now' + 5000
        /\ lastOp' = "retry" =>
             \A t \in timers \ timers' :
                 (unsubscribe = Null /\ HandleOf(t) \notin orphanRetries) =>
                     pendingRetry' = pendingRetry + 1 ]_vars

\* C18: after an initialize() that failed and a following destroy() the
\* engine holds no timer (poll, countdown or pending retry) and, when no
\* initialize() call succeeded, no tick subscription.
C18_AllReleased ==
    [][ (lastOp' = "destroy" /\ failures > 0) =>
          /\ timers' = {}
          /\ startCalls = failures => subs' = {} ]_vars

\* C19: once the component is unmounted the engine is cleaned up: it holds no
\* tick subscription and no interval, whenever the unmount came.
C19_CleanAfterUnmount ==
    ~mounted =>
        /\ subs = {}
        /\ unsubscribe = Null
        /\ signalGenerationInterval = Null
        /\ { t \in timers : t.kind \in {"poll", "countdown"} } = {}

\* C20: no two emitted signals have the same id: a signal that becomes active
\* has the id of its creation time, which is later than the creation time of
\* every signal emitted before, over polls, expiries, reload() and a
\* destroy/initialize cycle; its id was not in activeSignalIds, which then
\* holds just this id.
C20_UniqueIds ==
    [][ (currentSignal' # Null /\ currentSignal' # currentSignal /\ lastOp' = "poll") =>
          /\ currentSignal'[1].id = << "signal", now' >>
          /\ currentSignal'[1].createdAt = now'
          /\ currentSignal'[1].id \notin activeSignalIds
          /\ activeSignalIds' = { currentSignal'[1].id }
          /\ notified' = << currentSignal' >>
          /\ subscriberSaw # Null =>
                /\ currentSignal'[1].id # subscriberSaw[1].id
                /\ currentSignal'[1].createdAt > subscriberSaw[1].createdAt ]_vars

\* a signal emitted after the engine was destroyed and initialized again
C20_Witness ==
    /\ Created
    /\ startCalls = 1
    /\ CreatedSignal.createdAt > RestartTime
    /\ currentSignal = Some(CreatedSignal)
    /\ activeSignalIds = { CreatedSignal.id }

\* the sequence turns complete only by a keydown outside an input field that makes the
\* last 11 keys spell the secret code
CompletedByCode ==
    (isSequenceComplete' /\ ~isSequenceComplete) =>
        /\ secOp' = "keydown"
        /\ LastN(Append(sequence, lastKey'[1]), Len(secretCode)) = secretCode

\* the click that toggles is the third counted since the sequence was completed
ToggledByCountedClicks ==
    secOp' = "toggle" => (isSequenceComplete /\ Len(clickLog) = LOGO_CLICKS - 1)

\* C21: fake real mode is toggled only after the keys of the secret code were pressed
\* in order outside input fields and the logo was then clicked 3 times, the first and
\* the last of the three clicks being at most 2 seconds apart.
C21_ToggleOnlyWithinTwoSeconds ==
    [][ /\ CompletedByCode
        /\ ToggledByCountedClicks
        /\ secOp' = "toggle" => secNow - clickLog[1] <= LOGO_CLICK_TIMEOUT ]_vars

\* a toggle needs the completed sequence and three counted clicks
ToggleNeedsSequenceAndClicks == [][CompletedByCode /\ ToggledByCountedClicks]_vars

\* the account ids the whitelist lists, a whitelist given as one string listing that string
Whitelisted ==
    IF whitelist.kind \in {"array", "string"}
    THEN {whitelist.items[i] : i \in 1..Len(whitelist.items)}
    ELSE {}

\* C22: hasPremiumAccess() never throws, and returns true exactly when an active login
\* id is stored, the whitelist was fetched and parsed, and the id is exactly one of the
\* whitelisted ids.
C22_ExactMemberOnly ==
    premOp = "hasPremiumAccess" =>
        /\ ~premResult[1].threw
        /\ premResult[1].value <=>
              /\ active_loginid # Null
              /\ active_loginid # Some(<< >>)
              /\ fetchOutcome = "ok"
              /\ active_loginid[1] \in Whitelisted

CountdownTimers(ts) == {t \in ts : t.kind = "countdown"}

\* C23: a detection poll that fires while a signal is active changes nothing of the
\* signal (id, type, confidence, createdAt, expiresAt, remaining seconds), leaves the
\* countdown timer as it is and notifies nobody, whatever the buffer holds.
C23_PollWhileActiveIsNoOp ==
    [][ (lastOp' = "poll" /\ currentSignal # Null) =>
            /\ currentSignal' = currentSignal
            /\ activeSignalIds' = activeSignalIds
            /\ countdownInterval' = countdownInterval
            /\ CountdownTimers(timers') = CountdownTimers(timers)
            /\ tickBuffer' = tickBuffer
            /\ notified' = << >> ]_vars

\* a poll fired on an aged signal while the window favoured the other side
C23_Witness ==
    /\ lastOp = "poll"
    /\ currentSignal # Null
    /\ currentSignal[1].remainingSeconds < SIGNAL_DURATION
    /\ Len(tickBuffer) >= MIN_TICKS_FOR_ANALYSIS
    /\ \/ currentSignal[1].type = "UNDER" /\ LowDominates
       \/ currentSignal[1].type = "OVER" /\ HighDominates

\* the analyzer's counts and percentages are those of the sequence w of ticks
SnapshotOf(w) ==
    /\ analysis[1].overCount = HighCount(w)
    /\ analysis[1].underCount = LowCount(w)
    /\ analysis[1].overCount + analysis[1].underCount = Len(w)
    /\ FracEq(analysis[1].overPercentage, Frac(HighCount(w) * 100, Len(w)))
    /\ FracEq(analysis[1].underPercentage, Frac(LowCount(w) * 100, Len(w)))

\* C24 as stated: on a buffer of at least 50 ticks the analyzer classifies every
\* sample of the buffer: high count plus low count is the buffer length and the
\* percentages are taken over the whole buffer.
C24_WholeBuffer ==
    (analysis # Null /\ Len(tickBuffer) >= 50) => SnapshotOf(tickBuffer)

\* C24 amended: on a buffer of at least 50 ticks the analyzer classifies the last 50
\* ticks of the buffer as high or low: high count plus low count is 50 and the
\* percentages are taken over these 50 ticks, whatever came before them.
C24_LastFifty ==
    (analysis # Null /\ Len(tickBuffer) >= 50) =>
        /\ SnapshotOf(LastN(tickBuffer, 50))
        /\ analysis[1].overCount + analysis[1].underCount = 50

\* a buffer of more than 50 ticks was analysed, its older ticks being high and none of
\* its last 50
C24_Witness ==
    /\ analysis # Null
    /\ Len(tickBuffer) > 50
    /\ HighCount(tickBuffer) > 0
    /\ analysis[1].overCount = 0

\* the engine was destroyed: no timer and no subscription is left
Destroyed == ~isInitialized /\ timers = {} /\ subs = {} /\ pendingInit = 0

\* the engine is Idle and the last thing the subscriber received is null
ClearedAndTold == currentSignal = Null /\ subscriberSaw # Null /\ subscriberSaw[1].cleared

\* C25: with the countdown timer firing and time advancing, every signal that becomes
\* active (and expires within the time followed) is eventually cleared: the engine is
\* Idle again and the subscriber has received null; the countdown stops firing only
\* when the engine is destroyed.
C25_EventuallyCleared ==
    (currentSignal # Null /\ currentSignal[1].expiresAt + MaxLate <= MaxTime)
        ~> (ClearedAndTold \/ Destroyed)

\* a signal ran its whole duration and was cleared by its countdown
C25_Witness ==
    /\ lastOp = "countdown"
    /\ ClearedAndTold
    /\ isInitialized
    /\ now >= subscriberSaw[1].createdAt + SIGNAL_DURATION * MsPerSecond - COUNTDOWN_INTERVAL

\* the countdown of the active signal is running
CountdownRunning ==
    /\ countdownInterval # Null
    /\ \E t \in timers : t.kind = "countdown" /\ HandleOf(t) = countdownInterval[1]

\* C26: after a detection poll during which an exception was raised, the engine is
\* Idle, or Active with a running countdown.
C26_ContainedAtPoll ==
    (lastOp = "poll" /\ thrown) => (currentSignal = Null \/ CountdownRunning)

\* what follows: the signal never ages, and no later poll or countdown tick clears it
StuckActive ==
    /\ currentSignal # Null
    /\ ~CountdownRunning
    /\ now >= currentSignal[1].expiresAt + SIGNAL_CHECK_INTERVAL
    /\ currentSignal[1].remainingSeconds = SIGNAL_DURATION

\* C27: the engine holds at most one tick subscription, the one its unsubscribe handle
\* releases, and a delivered tick is appended to the buffer once.
C27_OneSubscription ==
    [][ /\ Cardinality(subs') <= 1
        /\ subs' # {} => (unsubscribe' # Null /\ subs' = {unsubscribe'[1]})
        /\ lastOp' = "tick" => Len(ingested') <= Len(ingested) + 1 ]_vars

\* no start() and no stop() call is in flight
NoCallInFlight == InFlight("start") = {} /\ InFlight("stop") = {}

\* C28: when no start() or stop() call is in flight and isRunning is false, the
\* service has no generation interval and no market subscription and its listeners are
\* not notified; and there is never more than one generation interval.
C28_StoppedIsQuiet ==
    /\ Cardinality(liveIntervals) <= 1
    /\ (NoCallInFlight /\ ~isRunning) =>
          /\ liveIntervals = {}
          /\ liveSubs = {}
          /\ called = << >>

====
